---- MODULE Spec2Model ----
(***************************************************************************)
(* Model of drivers/net/ethernet/mellanox/mlx5/core/en/rep/tc.c: the       *)
(* indirect-block registry, the encap/neighbour attach-detach code, the    *)
(* encap flow update, the flow-table chain remap and the receive-path      *)
(* metadata restore.  Each component has its own variables and its own     *)
(* specification (SpecBind, SpecEncap, SpecEncapSeq, SpecUpdate, SpecCls,  *)
(* SpecRx); the components share no state.                                 *)
(***************************************************************************)
EXTENDS Integers, Sequences, FiniteSets, TLC

VARIABLES
    \* ---- indirect block registry (struct mlx5_rep_uplink_priv, flow_block) ----
    tc_indr_block_priv_list, \* rpriv->uplink_priv.tc_indr_block_priv_list
    flow_block_cbs,          \* block callbacks registered on their flow block
    unbound_cbs,             \* block callbacks removed by Unbind, not yet freed
    mlx5e_block_cb_list,     \* the driver's list of indirect block callbacks
    int_port_supported,      \* mlx5e_tc_int_port_supported(esw)
    indr_call,               \* the last mlx5e_rep_indr_setup_cb call and its result
    \* ---- encap entries and neighbour entries ----
    e_nhe,        \* e->nhe of each encap entry (0 is NULL)
    neigh,        \* the neighbour hash entries: live, key, refcnt, encap_list, lock
    entropy,      \* tun_entropy: the refcount of each reformat type
    encap_lock,   \* rpriv->neigh_update.encap_lock: the holder, or NULL
    pc,           \* where each entry's attach or detach call stands
    enc_l,        \* the locals of that call: m_neigh, nhe, the entropy count on entry
    enc_last,     \* the last attach or detach call that returned
    \* ---- one encap entry under mlx5e_rep_update_flows ----
    encap,        \* the entry: valid (MLX5_ENCAP_ENTRY_VALID), h_dest, the header's
                  \* h_dest and h_source, its flows and which of them are offloaded
    upd_call,     \* the last mlx5e_rep_update_flows call: arguments and what it did
    \* ---- classifier callbacks ----
    cls_cfg,      \* the device: chains and priorities supported, the priority
                  \* range, netif_device_present()
    cls_req,      \* the callback invoked: which one, the setup type, the binding
    cls_f,        \* the caller's struct flow_cls_offload
    cls_call,     \* the call made: the descriptor on entry, the installer
                  \* invocations, the return value
    \* ---- receive path ----
    rx_cqe,       \* the completion: reg_c0, the tunnel id field of reg_c1, the
                  \* IPsec rx marker
    rx_env,       \* what the mapping tables and the device table hold at the
                  \* keys the packet carries
    rx_skb,       \* the packet: device, dst (tunnel metadata), mark, tc extension
    rx_call,      \* the receive made: the packet on entry, the events in order,
                  \* the tunnel restore it made, the pending forward device
    \* ---- action-only (no device) setup ----
    act_env,      \* the eswitch mode and the action handlers of each namespace
    act_req,      \* the request: setup type, data, and the flow_offload_action
    act_call,     \* the call made: the handler lookups and invocations, the
                  \* return value
    \* ---- the deferred reoffload work ----
    reoffload_flows_work, \* uplink_priv.reoffload_flows_work: pending, running,
                          \* and how often it has run
    disable_pc,   \* mlx5e_rep_tc_disable: not called, cancelling, returned
    torn_down,    \* the owning state (rpriv) has been torn down
    affinity      \* the port-affinity events: how many, whether one came after
                  \* disable returned, and the last one's result

bindVars == <<tc_indr_block_priv_list, flow_block_cbs, unbound_cbs,
              mlx5e_block_cb_list, int_port_supported, indr_call>>

encapVars == <<e_nhe, neigh, entropy, encap_lock, pc, enc_l, enc_last>>

updVars == <<encap, upd_call>>

clsVars == <<cls_cfg, cls_req, cls_f, cls_call>>

rxVars == <<rx_cqe, rx_env, rx_skb, rx_call>>

actVars == <<act_env, act_req, act_call>>

wqVars == <<reoffload_flows_work, disable_pc, torn_down, affinity>>

vars == <<bindVars, encapVars, updVars, clsVars, rxVars, actVars, wqVars>>

\* What each component leaves alone: the variables of the others.
notBind == <<encapVars, updVars, clsVars, rxVars, actVars, wqVars>>

notEncap == <<bindVars, updVars, clsVars, rxVars, actVars, wqVars>>

notUpd == <<bindVars, encapVars, clsVars, rxVars, actVars, wqVars>>

notCls == <<bindVars, encapVars, updVars, rxVars, actVars, wqVars>>

notRx == <<bindVars, encapVars, updVars, clsVars, actVars, wqVars>>

notAct == <<bindVars, encapVars, updVars, clsVars, rxVars, wqVars>>

notWq == <<bindVars, encapVars, updVars, clsVars, rxVars, actVars>>

\* ------------------------------------------------------------------------
\* Sequence helpers (struct list_head operations)
\* ------------------------------------------------------------------------

\* list_add(): insert at the head
list_add(x, l) == <<x>> \o l

\* list_add_tail(): insert at the tail
list_add_tail(x, l) == Append(l, x)

RECURSIVE list_del(_, _)
\* list_del(): unlink the (first) node equal to x
list_del(x, l) ==
    IF l = <<>> THEN <<>>
    ELSE IF Head(l) = x THEN Tail(l)
    ELSE <<Head(l)>> \o list_del(x, Tail(l))

Range(l) == {l[i] : i \in 1..Len(l)}

\* ------------------------------------------------------------------------
\* Indirect block registry
\* ------------------------------------------------------------------------

\* Bound: kmalloc() of a binding fails once this many bindings are linked.
MaxPriv == 2

NULL == "NULL"

\* The foreign devices a bind request may name: a tunnel device, a vlan on
\* another lower device, an OVS internal port, a passthru and a vepa macvlan
\* on the representor.
\*   kind: what netif_is_*/is_vlan_dev/mlx5e_tc_tun_device_to_offload see
\*   real: the lower device of a vlan/macvlan ("rep" is rpriv->netdev)
\*   mode: the macvlan mode
DevInfo ==
    [vxlan0   |-> [kind |-> "tun",     real |-> NULL,  mode |-> NULL],
     vlan1    |-> [kind |-> "vlan",    real |-> "eth1", mode |-> NULL],
     ovs0     |-> [kind |-> "ovs",     real |-> NULL,  mode |-> NULL],
     macvlan0 |-> [kind |-> "macvlan", real |-> "rep", mode |-> "passthru"],
     macvlan1 |-> [kind |-> "macvlan", real |-> "rep", mode |-> "vepa"]]

Devices == DOMAIN DevInfo

\* enum flow_block_binder_type
BinderTypes == {"UNSPEC", "CLSACT_INGRESS", "CLSACT_EGRESS"}

\* The setup types mlx5e_rep_indr_setup_cb routes to setup_block, named by the
\* callback each one binds.
SetupCbs == {"tc_cb", "ft_cb"}

mlx5e_rep_macvlan_mode_supported(dev) == DevInfo[dev].mode = "passthru"

NULL_PRIV == [netdev |-> NULL, binder_type |-> NULL]

\* list_for_each_entry() with a return on the first match: the entry at the
\* least of the matching positions, or NULL.
ListFirst(list, matching) ==
    IF matching = {} THEN NULL_PRIV
    ELSE list[CHOOSE i \in matching : \A j \in matching : i <= j]

\* A lookup whose direction comparison is inverted.
lookup_other_direction(list, netdev, binder_type) ==
    ListFirst(list, {i \in 1..Len(list) : /\ list[i].netdev = netdev
                                          /\ list[i].binder_type # binder_type})

\* A lookup that compares the device only.
lookup_ignores_direction(list, netdev, binder_type) ==
    ListFirst(list, {i \in 1..Len(list) : list[i].netdev = netdev})

\* The first binding for (netdev, binder_type) in the list, or NULL.
mlx5e_rep_indr_block_priv_lookup(list, netdev, binder_type) ==
    ListFirst(list, {i \in 1..Len(list) : /\ list[i].netdev = netdev
                                          /\ list[i].binder_type = binder_type})

\* Eligibility checks without the test that egress is for an OVS internal
\* port only.
eligible_without_egress_check(netdev, binder_type) ==
    LET is_ovs_int_port == DevInfo[netdev].kind = "ovs"
        tun == DevInfo[netdev].kind = "tun"
        vlan_on_rep == DevInfo[netdev].kind = "vlan" /\ DevInfo[netdev].real = "rep"
        macvlan_on_rep == DevInfo[netdev].kind = "macvlan" /\ DevInfo[netdev].real = "rep"
    IN /\ (~tun /\ ~vlan_on_rep /\ ~is_ovs_int_port)
            => (macvlan_on_rep /\ mlx5e_rep_macvlan_mode_supported(netdev))
       /\ binder_type \in {"CLSACT_INGRESS", "CLSACT_EGRESS"}
       /\ (is_ovs_int_port => int_port_supported)

\* Lines 444-463: the eligibility checks, in the code's order.  TRUE when the
\* request passes them all.
indr_setup_block_eligible(netdev, binder_type) ==
    LET is_ovs_int_port == DevInfo[netdev].kind = "ovs"
        tun == DevInfo[netdev].kind = "tun"
        vlan_on_rep == DevInfo[netdev].kind = "vlan" /\ DevInfo[netdev].real = "rep"
        macvlan_on_rep == DevInfo[netdev].kind = "macvlan" /\ DevInfo[netdev].real = "rep"
    IN /\ (~tun /\ ~vlan_on_rep /\ ~is_ovs_int_port)
            => (macvlan_on_rep /\ mlx5e_rep_macvlan_mode_supported(netdev))
       /\ binder_type \in {"CLSACT_INGRESS", "CLSACT_EGRESS"}
       /\ (binder_type = "CLSACT_EGRESS" => is_ovs_int_port)
       /\ (is_ovs_int_port => int_port_supported)

\* enum flow_block_command, plus a value outside it
BlockCommands == {"BIND", "UNBIND", "OTHER"}

\* What the allocations of a Bind do: both succeed, kmalloc() fails, or
\* flow_indr_block_cb_alloc() fails.
AllocOutcomes == {"ok", "kmalloc_fails", "cb_alloc_fails"}

\* A setup_block whose Bind frees the provisional binding on a failed
\* flow_indr_block_cb_alloc() without unlinking it.
indr_setup_block_without_unlink(netdev, binder_type, command, setup_cb, alloc) ==
    LET st == [list |-> tc_indr_block_priv_list, cbs |-> flow_block_cbs,
               unbound |-> unbound_cbs, drv |-> mlx5e_block_cb_list]
        found == mlx5e_rep_indr_block_priv_lookup(tc_indr_block_priv_list,
                                                  netdev, binder_type)
        indr_priv == [netdev |-> netdev, binder_type |-> binder_type]
        block_cb == [cb |-> setup_cb, cb_ident |-> indr_priv]
    IN IF ~indr_setup_block_eligible(netdev, binder_type)
       THEN st @@ [ret |-> "EOPNOTSUPP"]
       ELSE IF command = "BIND"
       THEN IF found # NULL_PRIV THEN st @@ [ret |-> "EEXIST"]
            ELSE IF alloc = "kmalloc_fails" \/ Len(tc_indr_block_priv_list) >= MaxPriv
            THEN st @@ [ret |-> "ENOMEM"]
            ELSE LET linked == list_add(indr_priv, tc_indr_block_priv_list)
                 IN IF alloc = "cb_alloc_fails"
                    THEN [st EXCEPT !.list = linked]
                         @@ [ret |-> "ENOMEM"]
                    ELSE [st EXCEPT !.list = linked,
                                    !.cbs = @ \cup {block_cb},
                                    !.drv = list_add_tail(block_cb, @)]
                         @@ [ret |-> "OK"]
       ELSE IF command = "UNBIND"
       THEN IF found = NULL_PRIV THEN st @@ [ret |-> "ENOENT"]
            \* flow_block_cb_lookup(f->block, setup_cb, indr_priv)
            ELSE IF [cb |-> setup_cb, cb_ident |-> found] \notin flow_block_cbs
            THEN st @@ [ret |-> "ENOENT"]
            \* flow_indr_block_cb_remove(): off the block, onto the offload's
            \* list of callbacks to free; list_del(&block_cb->driver_list)
            ELSE LET cb == [cb |-> setup_cb, cb_ident |-> found]
                 IN [st EXCEPT !.cbs = @ \ {cb},
                               !.unbound = @ \cup {cb},
                               !.drv = list_del(cb, @)]
                    @@ [ret |-> "OK"]
       ELSE st @@ [ret |-> "EOPNOTSUPP"]

\* The state after and the result of one mlx5e_rep_indr_setup_block call.
indr_setup_block(netdev, binder_type, command, setup_cb, alloc) ==
    LET st == [list |-> tc_indr_block_priv_list, cbs |-> flow_block_cbs,
               unbound |-> unbound_cbs, drv |-> mlx5e_block_cb_list]
        found == mlx5e_rep_indr_block_priv_lookup(tc_indr_block_priv_list,
                                                  netdev, binder_type)
        indr_priv == [netdev |-> netdev, binder_type |-> binder_type]
        block_cb == [cb |-> setup_cb, cb_ident |-> indr_priv]
    IN IF ~indr_setup_block_eligible(netdev, binder_type)
       THEN st @@ [ret |-> "EOPNOTSUPP"]
       ELSE IF command = "BIND"
       THEN IF found # NULL_PRIV THEN st @@ [ret |-> "EEXIST"]
            ELSE IF alloc = "kmalloc_fails" \/ Len(tc_indr_block_priv_list) >= MaxPriv
            THEN st @@ [ret |-> "ENOMEM"]
            ELSE LET linked == list_add(indr_priv, tc_indr_block_priv_list)
                 IN IF alloc = "cb_alloc_fails"
                    THEN [st EXCEPT !.list = list_del(indr_priv, linked)]
                         @@ [ret |-> "ENOMEM"]
                    ELSE [st EXCEPT !.list = linked,
                                    !.cbs = @ \cup {block_cb},
                                    !.drv = list_add_tail(block_cb, @)]
                         @@ [ret |-> "OK"]
       ELSE IF command = "UNBIND"
       THEN IF found = NULL_PRIV THEN st @@ [ret |-> "ENOENT"]
            \* flow_block_cb_lookup(f->block, setup_cb, indr_priv)
            ELSE IF [cb |-> setup_cb, cb_ident |-> found] \notin flow_block_cbs
            THEN st @@ [ret |-> "ENOENT"]
            \* flow_indr_block_cb_remove(): off the block, onto the offload's
            \* list of callbacks to free; list_del(&block_cb->driver_list)
            ELSE LET cb == [cb |-> setup_cb, cb_ident |-> found]
                 IN [st EXCEPT !.cbs = @ \ {cb},
                               !.unbound = @ \cup {cb},
                               !.drv = list_del(cb, @)]
                    @@ [ret |-> "OK"]
       ELSE st @@ [ret |-> "EOPNOTSUPP"]

\* mlx5e_rep_indr_setup_cb with a device: TC_SETUP_BLOCK and TC_SETUP_FT both go
\* to mlx5e_rep_indr_setup_block, with the tc or the ft callback.
mlx5e_rep_indr_setup_cb(netdev, binder_type, command, setup_cb, alloc) ==
    \E r \in {indr_setup_block(netdev, binder_type, command, setup_cb, alloc)} :
       /\ tc_indr_block_priv_list' = r.list
       /\ flow_block_cbs' = r.cbs
       /\ unbound_cbs' = r.unbound
       /\ mlx5e_block_cb_list' = r.drv
       /\ indr_call' = [op |-> command, netdev |-> netdev,
                        binder_type |-> binder_type, alloc |-> alloc,
                        ret |-> r.ret]
       /\ UNCHANGED <<int_port_supported, notBind>>

\* A Bind request on either setup type.  The allocations can fail only in a
\* request that reaches them.
IndrBind ==
    \E netdev \in Devices, binder_type \in BinderTypes, setup_cb \in SetupCbs :
       \E alloc \in IF /\ indr_setup_block_eligible(netdev, binder_type)
                       /\ mlx5e_rep_indr_block_priv_lookup(tc_indr_block_priv_list,
                                                           netdev, binder_type) = NULL_PRIV
                    THEN AllocOutcomes ELSE {"ok"} :
          mlx5e_rep_indr_setup_cb(netdev, binder_type, "BIND", setup_cb, alloc)

\* An Unbind request on either setup type.
IndrUnbind ==
    \E netdev \in Devices, binder_type \in BinderTypes, setup_cb \in SetupCbs :
       mlx5e_rep_indr_setup_cb(netdev, binder_type, "UNBIND", setup_cb, "ok")

\* A request whose command is neither Bind nor Unbind.
IndrOtherCommand ==
    \E netdev \in Devices, binder_type \in BinderTypes, setup_cb \in SetupCbs :
       mlx5e_rep_indr_setup_cb(netdev, binder_type, "OTHER", setup_cb, "ok")

\* mlx5e_rep_indr_block_unbind: the release callback of a binding, run when the
\* block callback removed by Unbind is freed.
mlx5e_rep_indr_block_unbind(list, indr_priv) == list_del(indr_priv, list)

IndrBlockRelease(cb) ==
    /\ cb \in unbound_cbs
    /\ tc_indr_block_priv_list' =
           mlx5e_rep_indr_block_unbind(tc_indr_block_priv_list, cb.cb_ident)
    /\ unbound_cbs' = unbound_cbs \ {cb}
    /\ indr_call' = [op |-> "RELEASE", netdev |-> cb.cb_ident.netdev,
                     binder_type |-> cb.cb_ident.binder_type, alloc |-> NULL,
                     ret |-> NULL]
    /\ UNCHANGED <<flow_block_cbs, mlx5e_block_cb_list, int_port_supported, notBind>>

\* mlx5e_rep_tc_netdevice_event_register: INIT_LIST_HEAD
InitBind ==
    /\ tc_indr_block_priv_list = <<>>
    /\ flow_block_cbs = {}
    /\ unbound_cbs = {}
    /\ mlx5e_block_cb_list = <<>>
    /\ int_port_supported \in BOOLEAN
    /\ indr_call = [op |-> NULL, netdev |-> NULL, binder_type |-> NULL,
                    alloc |-> NULL, ret |-> NULL]

NextBind ==
    \/ IndrBind
    \/ IndrUnbind
    \/ IndrOtherCommand
    \/ \E cb \in unbound_cbs : IndrBlockRelease(cb)

\* The registry left out: in the specifications of the other components its
\* variables hold no value and never change.
OffBind ==
    /\ tc_indr_block_priv_list = NULL
    /\ flow_block_cbs = NULL
    /\ unbound_cbs = NULL
    /\ mlx5e_block_cb_list = NULL
    /\ int_port_supported = NULL
    /\ indr_call = NULL

\* ------------------------------------------------------------------------
\* Encap entries and neighbour entries: attach and detach
\* ------------------------------------------------------------------------

\* Bound: the neighbour entries that can be allocated at one time;
\* mlx5e_rep_neigh_entry_create() fails when none is free.
MaxNhe == 2

\* The encap entries, each with its e->reformat_type.
ReformatType == [e1 |-> "L2_TO_VXLAN", e2 |-> "L2_TO_VXLAN", e3 |-> "L2_TO_NVGRE"]

Entries == DOMAIN ReformatType

ReformatTypes == {ReformatType[e] : e \in Entries}

\* The neighbour keys (struct mlx5e_neigh) an attach may name.
NeighKeys == {"n1", "n2"}

NheIds == 1..MaxNhe

FreeNhe == [live |-> FALSE, key |-> NULL, refcnt |-> 0, encap_list |-> <<>>,
            lock |-> NULL]

NoLocals == [key |-> NULL, nhe |-> 0, ent0 |-> 0]

\* mlx5_tun_entropy_refcount_inc(): one more user of the reformat type.
mlx5_tun_entropy_refcount_inc(ent, type) == [ent EXCEPT ![type] = @ + 1]

\* mlx5_tun_entropy_refcount_dec(): one user less.
mlx5_tun_entropy_refcount_dec(ent, type) == [ent EXCEPT ![type] = @ - 1]

\* mlx5e_rep_neigh_entry_lookup(): the live entry of the key that still has
\* users, with a reference taken on it; 0 (NULL) when there is none.
mlx5e_rep_neigh_entry_lookup(tbl, key) ==
    LET hits == {n \in NheIds : tbl[n].live /\ tbl[n].key = key /\ tbl[n].refcnt > 0}
    IN IF hits = {} THEN 0 ELSE CHOOSE n \in hits : \A m \in hits : n <= m

\* The reference the lookup takes on the entry it returns.
neigh_entry_hold(tbl, n) == [tbl EXCEPT ![n].refcnt = @ + 1]

\* mlx5e_rep_neigh_entry_create(): a new entry for the key, owned by its
\* creator (refcount one), inserted in the table.
mlx5e_rep_neigh_entry_create(tbl, n, key) ==
    [tbl EXCEPT ![n] = [live |-> TRUE, key |-> key, refcnt |-> 1,
                        encap_list |-> <<>>, lock |-> NULL]]

\* mlx5e_rep_neigh_entry_release(): drop a reference; the last one removes the
\* entry from the table and frees it.
mlx5e_rep_neigh_entry_release(tbl, n) ==
    IF tbl[n].refcnt > 1 THEN [tbl EXCEPT ![n].refcnt = @ - 1]
    ELSE [tbl EXCEPT ![n] = FreeNhe]

Returned(e, op, ret) == [e |-> e, op |-> op, ret |-> ret, ent0 |-> enc_l[e].ent0]

\* Line 45-47: the call, and the entropy refcount increment, which may fail.
EncapAttachCall(e, key, inc_ok) ==
    /\ pc[e] = "idle"
    /\ e_nhe[e] = 0
    /\ IF inc_ok
       THEN /\ entropy' = mlx5_tun_entropy_refcount_inc(entropy, ReformatType[e])
            /\ pc' = [pc EXCEPT ![e] = "mutex_lock"]
            /\ enc_l' = [enc_l EXCEPT ![e] = [key |-> key, nhe |-> 0,
                                              ent0 |-> entropy[ReformatType[e]]]]
            /\ UNCHANGED enc_last
       ELSE /\ enc_last' = [e |-> e, op |-> "attach", ret |-> "EOPNOTSUPP",
                            ent0 |-> entropy[ReformatType[e]]]
            /\ UNCHANGED <<entropy, pc, enc_l>>
    /\ UNCHANGED <<e_nhe, neigh, encap_lock, notEncap>>

\* An attach that goes on to the lookup without the table update lock.
AttachWithoutTableLock(e) ==
    /\ pc[e] = "mutex_lock"
    /\ pc' = [pc EXCEPT ![e] = "lookup"]
    /\ UNCHANGED <<e_nhe, neigh, entropy, encap_lock, enc_l, enc_last, notEncap>>

\* Line 49: mutex_lock(&rpriv->neigh_update.encap_lock)
EncapAttachLock(e) ==
    /\ pc[e] = "mutex_lock"
    /\ encap_lock = NULL
    /\ encap_lock' = e
    /\ pc' = [pc EXCEPT ![e] = "lookup"]
    /\ UNCHANGED <<e_nhe, neigh, entropy, enc_l, enc_last, notEncap>>

\* Line 50-51: the lookup
EncapAttachLookup(e) ==
    /\ pc[e] = "lookup"
    /\ LET n == mlx5e_rep_neigh_entry_lookup(neigh, enc_l[e].key)
       IN IF n # 0
          THEN /\ neigh' = neigh_entry_hold(neigh, n)
               /\ enc_l' = [enc_l EXCEPT ![e].nhe = n]
               /\ pc' = [pc EXCEPT ![e] = "set_nhe"]
          ELSE /\ pc' = [pc EXCEPT ![e] = "create"]
               /\ UNCHANGED <<neigh, enc_l>>
    /\ UNCHANGED <<e_nhe, entropy, encap_lock, enc_last, notEncap>>

\* Line 52-53: the creation, which may fail.
EncapAttachCreate(e, create_ok) ==
    /\ pc[e] = "create"
    /\ LET free == {n \in NheIds : ~neigh[n].live}
       IN IF create_ok /\ free # {}
          THEN LET n == CHOOSE n \in free : \A m \in free : n <= m
               IN /\ neigh' = mlx5e_rep_neigh_entry_create(neigh, n, enc_l[e].key)
                  /\ enc_l' = [enc_l EXCEPT ![e].nhe = n]
                  /\ pc' = [pc EXCEPT ![e] = "set_nhe"]
          ELSE /\ pc' = [pc EXCEPT ![e] = "err_unlock"]
               /\ UNCHANGED <<neigh, enc_l>>
    /\ UNCHANGED <<e_nhe, entropy, encap_lock, enc_last, notEncap>>

\* Line 54: mutex_unlock on the error path
EncapAttachErrUnlock(e) ==
    /\ pc[e] = "err_unlock"
    /\ encap_lock' = NULL
    /\ pc' = [pc EXCEPT ![e] = "err_dec"]
    /\ UNCHANGED <<e_nhe, neigh, entropy, enc_l, enc_last, notEncap>>

\* An error path that returns without giving the entropy refcount back.
AttachErrWithoutDec(e) ==
    /\ pc[e] = "err_dec"
    /\ enc_last' = Returned(e, "attach", "ENOMEM")
    /\ pc' = [pc EXCEPT ![e] = "idle"]
    /\ enc_l' = [enc_l EXCEPT ![e] = NoLocals]
    /\ UNCHANGED <<e_nhe, neigh, entropy, encap_lock, notEncap>>

\* Line 55-57: the entropy refcount is given back and the error returned.
EncapAttachErrDec(e) ==
    /\ pc[e] = "err_dec"
    /\ entropy' = mlx5_tun_entropy_refcount_dec(entropy, ReformatType[e])
    /\ enc_last' = Returned(e, "attach", "ENOMEM")
    /\ pc' = [pc EXCEPT ![e] = "idle"]
    /\ enc_l' = [enc_l EXCEPT ![e] = NoLocals]
    /\ UNCHANGED <<e_nhe, neigh, encap_lock, notEncap>>

\* Line 61: e->nhe = nhe
EncapAttachSetNhe(e) ==
    /\ pc[e] = "set_nhe"
    /\ e_nhe' = [e_nhe EXCEPT ![e] = enc_l[e].nhe]
    /\ pc' = [pc EXCEPT ![e] = "spin_lock"]
    /\ UNCHANGED <<neigh, entropy, encap_lock, enc_l, enc_last, notEncap>>

\* An attach that goes on to the list without taking the list lock.
AttachWithoutSpinLock(e) ==
    /\ pc[e] = "spin_lock"
    /\ pc' = [pc EXCEPT ![e] = "list_add"]
    /\ UNCHANGED <<e_nhe, neigh, entropy, encap_lock, enc_l, enc_last, notEncap>>

\* Line 62: spin_lock(&nhe->encap_list_lock)
EncapAttachSpinLock(e) ==
    /\ pc[e] = "spin_lock"
    /\ neigh[enc_l[e].nhe].lock = NULL
    /\ neigh' = [neigh EXCEPT ![enc_l[e].nhe].lock = e]
    /\ pc' = [pc EXCEPT ![e] = "list_add"]
    /\ UNCHANGED <<e_nhe, entropy, encap_lock, enc_l, enc_last, notEncap>>

\* Line 63: list_add_rcu(&e->encap_list, &nhe->encap_list)
EncapAttachListAdd(e) ==
    /\ pc[e] = "list_add"
    /\ neigh' = [neigh EXCEPT ![enc_l[e].nhe].encap_list = list_add(e, @)]
    /\ pc' = [pc EXCEPT ![e] = "spin_unlock"]
    /\ UNCHANGED <<e_nhe, entropy, encap_lock, enc_l, enc_last, notEncap>>

\* Line 64: spin_unlock(&nhe->encap_list_lock)
EncapAttachSpinUnlock(e) ==
    /\ pc[e] = "spin_unlock"
    /\ neigh' = [neigh EXCEPT ![enc_l[e].nhe].lock = NULL]
    /\ pc' = [pc EXCEPT ![e] = "mutex_unlock"]
    /\ UNCHANGED <<e_nhe, entropy, encap_lock, enc_l, enc_last, notEncap>>

\* Line 66-68: mutex_unlock and return 0
EncapAttachUnlock(e) ==
    /\ pc[e] = "mutex_unlock"
    /\ encap_lock' = NULL
    /\ enc_last' = Returned(e, "attach", "OK")
    /\ pc' = [pc EXCEPT ![e] = "idle"]
    /\ enc_l' = [enc_l EXCEPT ![e] = NoLocals]
    /\ UNCHANGED <<e_nhe, neigh, entropy, notEncap>>

\* Line 78-81: the call; nothing to do for an entry that is not attached,
\* otherwise spin_lock(&e->nhe->encap_list_lock).
EncapDetachCall(e) ==
    /\ pc[e] = "idle"
    /\ IF e_nhe[e] = 0
       THEN /\ enc_last' = [e |-> e, op |-> "detach", ret |-> NULL,
                            ent0 |-> entropy[ReformatType[e]]]
            /\ UNCHANGED <<neigh, pc, enc_l>>
       ELSE /\ neigh[e_nhe[e]].lock = NULL
            /\ neigh' = [neigh EXCEPT ![e_nhe[e]].lock = e]
            /\ pc' = [pc EXCEPT ![e] = "list_del"]
            /\ enc_l' = [enc_l EXCEPT ![e] = [key |-> NULL, nhe |-> 0,
                                              ent0 |-> entropy[ReformatType[e]]]]
            /\ UNCHANGED enc_last
    /\ UNCHANGED <<e_nhe, entropy, encap_lock, notEncap>>

\* A detach that leaves the entry on the list.
DetachWithoutListDel(e) ==
    /\ pc[e] = "list_del"
    /\ pc' = [pc EXCEPT ![e] = "d_spin_unlock"]
    /\ UNCHANGED <<e_nhe, neigh, entropy, encap_lock, enc_l, enc_last, notEncap>>

\* Line 82: list_del_rcu(&e->encap_list)
EncapDetachListDel(e) ==
    /\ pc[e] = "list_del"
    /\ neigh' = [neigh EXCEPT ![e_nhe[e]].encap_list = list_del(e, @)]
    /\ pc' = [pc EXCEPT ![e] = "d_spin_unlock"]
    /\ UNCHANGED <<e_nhe, entropy, encap_lock, enc_l, enc_last, notEncap>>

\* Line 83: spin_unlock(&e->nhe->encap_list_lock)
EncapDetachSpinUnlock(e) ==
    /\ pc[e] = "d_spin_unlock"
    /\ neigh' = [neigh EXCEPT ![e_nhe[e]].lock = NULL]
    /\ pc' = [pc EXCEPT ![e] = "release"]
    /\ UNCHANGED <<e_nhe, entropy, encap_lock, enc_l, enc_last, notEncap>>

\* A detach that skips the release of the neighbour entry.
DetachWithoutRelease(e) ==
    /\ pc[e] = "release"
    /\ pc' = [pc EXCEPT ![e] = "clear_nhe"]
    /\ UNCHANGED <<e_nhe, neigh, entropy, encap_lock, enc_l, enc_last, notEncap>>

\* Line 85: mlx5e_rep_neigh_entry_release(e->nhe).  Dropping the last
\* reference destroys the entry, which is done under the table update lock.
EncapDetachRelease(e) ==
    /\ pc[e] = "release"
    /\ neigh[e_nhe[e]].refcnt <= 1 => encap_lock = NULL
    /\ neigh' = mlx5e_rep_neigh_entry_release(neigh, e_nhe[e])
    /\ pc' = [pc EXCEPT ![e] = "clear_nhe"]
    /\ UNCHANGED <<e_nhe, entropy, encap_lock, enc_l, enc_last, notEncap>>

\* Line 86: e->nhe = NULL
EncapDetachClearNhe(e) ==
    /\ pc[e] = "clear_nhe"
    /\ e_nhe' = [e_nhe EXCEPT ![e] = 0]
    /\ pc' = [pc EXCEPT ![e] = "d_dec"]
    /\ UNCHANGED <<neigh, entropy, encap_lock, enc_l, enc_last, notEncap>>

\* A detach that returns without giving the entropy refcount back.
DetachWithoutDec(e) ==
    /\ pc[e] = "d_dec"
    /\ enc_last' = Returned(e, "detach", NULL)
    /\ pc' = [pc EXCEPT ![e] = "idle"]
    /\ enc_l' = [enc_l EXCEPT ![e] = NoLocals]
    /\ UNCHANGED <<e_nhe, neigh, entropy, encap_lock, notEncap>>

\* Line 87: mlx5_tun_entropy_refcount_dec() and return
EncapDetachDec(e) ==
    /\ pc[e] = "d_dec"
    /\ entropy' = mlx5_tun_entropy_refcount_dec(entropy, ReformatType[e])
    /\ enc_last' = Returned(e, "detach", NULL)
    /\ pc' = [pc EXCEPT ![e] = "idle"]
    /\ enc_l' = [enc_l EXCEPT ![e] = NoLocals]
    /\ UNCHANGED <<e_nhe, neigh, encap_lock, notEncap>>

InitEncap ==
    /\ e_nhe = [e \in Entries |-> 0]
    /\ neigh = [n \in NheIds |-> FreeNhe]
    /\ entropy = [t \in ReformatTypes |-> 0]
    /\ encap_lock = NULL
    /\ pc = [e \in Entries |-> "idle"]
    /\ enc_l = [e \in Entries |-> NoLocals]
    /\ enc_last = [e |-> NULL, op |-> NULL, ret |-> NULL, ent0 |-> 0]

\* The encap entries left out.
OffEncap ==
    /\ e_nhe = NULL
    /\ neigh = NULL
    /\ entropy = NULL
    /\ encap_lock = NULL
    /\ pc = NULL
    /\ enc_l = NULL
    /\ enc_last = NULL

AllIdle == \A e \in Entries : pc[e] = "idle"

\* The steps inside a call.
EncapStep(e) ==
    \/ EncapAttachLock(e)
    \/ EncapAttachLookup(e)
    \/ \E create_ok \in BOOLEAN : EncapAttachCreate(e, create_ok)
    \/ EncapAttachErrUnlock(e)
    \/ EncapAttachErrDec(e)
    \/ EncapAttachSetNhe(e)
    \/ EncapAttachSpinLock(e)
    \/ EncapAttachListAdd(e)
    \/ EncapAttachSpinUnlock(e)
    \/ EncapAttachUnlock(e)
    \/ EncapDetachListDel(e)
    \/ EncapDetachSpinUnlock(e)
    \/ EncapDetachRelease(e)
    \/ EncapDetachClearNhe(e)
    \/ EncapDetachDec(e)

\* A call of attach or detach.
EncapCall(e) ==
    \/ \E key \in NeighKeys, inc_ok \in BOOLEAN : EncapAttachCall(e, key, inc_ok)
    \/ EncapDetachCall(e)

\* Calls from concurrent contexts, each on its own encap entry.
NextEncap == \E e \in Entries : EncapCall(e) \/ EncapStep(e)

\* Calls one after the other: a call starts when no other is in progress.
NextEncapSeq == \E e \in Entries : (AllIdle /\ EncapCall(e)) \/ EncapStep(e)

\* ------------------------------------------------------------------------
\* mlx5e_rep_update_flows
\* ------------------------------------------------------------------------

\* The MAC addresses a neighbour update or a route device may carry.
MacAddrs == {"mac1", "mac2", "mac3"}

\* The flows that may use the encap entry.
Flows == {"f1", "f2"}

\* mlx5e_take_all_encap_flows(): the snapshot of the entry's flows.
mlx5e_take_all_encap_flows(e) == e.flows

\* mlx5e_tc_encap_flows_del(): the flows of the list lose their encap
\* offload and the entry is marked invalid.
mlx5e_tc_encap_flows_del(e, flow_list) ==
    [e EXCEPT !.valid = FALSE, !.offloaded = @ \ flow_list]

\* mlx5e_tc_encap_flows_add(): the flows of the list are offloaded with the
\* entry's header and the entry is marked valid.
mlx5e_tc_encap_flows_add(e, flow_list) ==
    [e EXCEPT !.valid = TRUE, !.offloaded = @ \cup flow_list]

\* An update without the unchanged-state check, which tears down whenever the
\* entry is valid and installs whenever the neighbour is connected.
update_flows_always_refresh(e, neigh_connected, ha, route_dev_addr) ==
    LET flow_list == mlx5e_take_all_encap_flows(e)
        e1 == IF e.valid THEN mlx5e_tc_encap_flows_del(e, flow_list) ELSE e
        log1 == IF e.valid THEN <<[op |-> "del", flows |-> flow_list, h_dest |-> e.eth_h_dest]>>
                ELSE <<>>
        e2 == [e1 EXCEPT !.h_dest = ha, !.eth_h_dest = ha,
                         !.eth_h_source = IF route_dev_addr # NULL
                                          THEN route_dev_addr ELSE @]
    IN IF neigh_connected
       THEN [e |-> mlx5e_tc_encap_flows_add(e2, flow_list),
             log |-> Append(log1, [op |-> "add", flows |-> flow_list, h_dest |-> ha])]
       ELSE [e |-> e1, log |-> log1]

\* An update that tears down only on disconnect, so that a valid entry keeps
\* its flows and its stale MAC when the neighbour's address changes.
update_flows_keeps_stale_mac(e, neigh_connected, ha, route_dev_addr) ==
    LET encap_connected == e.valid
    IN IF encap_connected = neigh_connected /\ e.h_dest = ha
       THEN [e |-> e, log |-> <<>>]
       ELSE
       LET flow_list == mlx5e_take_all_encap_flows(e)
           del == e.valid /\ ~neigh_connected
           e1 == IF del THEN mlx5e_tc_encap_flows_del(e, flow_list) ELSE e
           log1 == IF del
                   THEN <<[op |-> "del", flows |-> flow_list, h_dest |-> e.eth_h_dest]>>
                   ELSE <<>>
       IN IF neigh_connected /\ ~e1.valid
          THEN LET e2 == [e1 EXCEPT !.h_dest = ha, !.eth_h_dest = ha,
                                    !.eth_h_source = IF route_dev_addr # NULL
                                                     THEN route_dev_addr ELSE @]
               IN [e |-> mlx5e_tc_encap_flows_add(e2, flow_list),
                   log |-> Append(log1, [op |-> "add", flows |-> flow_list,
                                         h_dest |-> e2.eth_h_dest])]
          ELSE [e |-> e1, log |-> log1]

\* mlx5e_rep_update_flows(): the entry after the call and the hardware
\* operations of the call, in order.
\*   route_dev_addr: the address of the route device, NULL when
\*   __dev_get_by_index() does not find it
mlx5e_rep_update_flows(e, neigh_connected, ha, route_dev_addr) ==
    LET encap_connected == e.valid
    IN IF encap_connected = neigh_connected /\ e.h_dest = ha
       THEN [e |-> e, log |-> <<>>]
       ELSE
       LET flow_list == mlx5e_take_all_encap_flows(e)
           del == e.valid /\ (~neigh_connected \/ e.h_dest # ha)
           e1 == IF del THEN mlx5e_tc_encap_flows_del(e, flow_list) ELSE e
           log1 == IF del
                   THEN <<[op |-> "del", flows |-> flow_list, h_dest |-> e.eth_h_dest]>>
                   ELSE <<>>
       IN IF neigh_connected /\ ~e1.valid
          THEN LET e2 == [e1 EXCEPT !.h_dest = ha, !.eth_h_dest = ha,
                                    !.eth_h_source = IF route_dev_addr # NULL
                                                     THEN route_dev_addr ELSE @]
               IN [e |-> mlx5e_tc_encap_flows_add(e2, flow_list),
                   log |-> Append(log1, [op |-> "add", flows |-> flow_list,
                                         h_dest |-> e2.eth_h_dest])]
          ELSE [e |-> e1, log |-> log1]

\* A neighbour update: the caller holds RTNL and the function runs under
\* encap_tbl_lock, so calls do not interleave.
UpdateFlows(neigh_connected, ha, route_dev_addr) ==
    \E r \in {mlx5e_rep_update_flows(encap, neigh_connected, ha, route_dev_addr)} :
       /\ encap' = r.e
       /\ upd_call' = [op |-> "update_flows", neigh_connected |-> neigh_connected,
                       ha |-> ha, log |-> r.log]
       /\ UNCHANGED notUpd

\* An encap entry as its creation leaves it: valid with its flows offloaded,
\* or invalid with none offloaded; the header carries the stored h_dest.
InitUpd ==
    /\ \E valid \in BOOLEAN, h_dest \in MacAddrs, h_source \in MacAddrs,
          flows \in SUBSET Flows :
          encap = [valid |-> valid, h_dest |-> h_dest, eth_h_dest |-> h_dest,
                   eth_h_source |-> h_source, flows |-> flows,
                   offloaded |-> IF valid THEN flows ELSE {}]
    /\ upd_call = [op |-> NULL, neigh_connected |-> FALSE, ha |-> NULL, log |-> <<>>]

\* The entry left out.
OffUpd == encap = NULL /\ upd_call = NULL

NextUpd ==
    \E neigh_connected \in BOOLEAN, ha \in MacAddrs,
       route_dev_addr \in MacAddrs \cup {NULL} :
       UpdateFlows(neigh_connected, ha, route_dev_addr)

\* ------------------------------------------------------------------------
\* Classifier callbacks: tc and flow-table remap, switch port and indirect
\* ------------------------------------------------------------------------

\* Bound: the largest priority range of the model's devices; priorities run
\* from 0 to this value, so that some lie at and above every range.
MaxPrioRange == 3

\* Bound: the largest chain index a request carries.
MaxChainIdx == 1

\* mlx5_chains_get_nf_ft_chain(): the chain reserved for flow-table offload,
\* above the chains of tc.
mlx5_chains_get_nf_ft_chain == MaxChainIdx + 1

\* enum flow_cls_command: the three commands handled, and one that is not.
ClsCommands == {"REPLACE", "DESTROY", "STATS", "TMPLT_CREATE"}

\* enum tc_setup_type, as far as the callbacks tell them apart.
SetupTypes == {"CLSFLOWER", "CLSMATCHALL", "OTHER"}

\* The values a stats block may hold.
StatsVals == {"stats0", "stats1"}

\* What the hardware installer may return.
InstallerRets == {"OK", "EINVAL"}

ClsPaths == {"rep_tc", "rep_ft", "indr_tc", "indr_ft"}

\* The result of a callback: return value, the descriptor it worked on as the
\* installer left it, and the installer invocations.
ClsResult(ret, f, calls) == [ret |-> ret, f |-> f, calls |-> calls]

\* mlx5e_configure_flower / mlx5e_delete_flower / mlx5e_stats_flower: the
\* installer is invoked once with the descriptor and the flags; it returns
\* inst.ret, and mlx5e_stats_flower, when it succeeds, fills in the stats.
installer(fn, netdev, f, flags, inst) ==
    LET f_out == IF fn = "mlx5e_stats_flower" /\ inst.ret = "OK"
                 THEN [f EXCEPT !.stats = inst.stats] ELSE f
    IN ClsResult(inst.ret, f_out,
                 <<[fn |-> fn, netdev |-> netdev, chain_index |-> f.chain_index,
                    prio |-> f.prio, flags |-> flags, ret |-> inst.ret,
                    stats |-> f_out.stats]>>)

\* mlx5e_rep_setup_tc_cls_flower
mlx5e_rep_setup_tc_cls_flower(f, flags, inst) ==
    IF f.command = "REPLACE" THEN installer("mlx5e_configure_flower", "rep", f, flags, inst)
    ELSE IF f.command = "DESTROY" THEN installer("mlx5e_delete_flower", "rep", f, flags, inst)
    ELSE IF f.command = "STATS" THEN installer("mlx5e_stats_flower", "rep", f, flags, inst)
    ELSE ClsResult("EOPNOTSUPP", f, <<>>)

\* mlx5e_rep_setup_tc_cls_matchall
mlx5e_rep_setup_tc_cls_matchall(f, inst) ==
    IF f.command = "REPLACE"
    THEN installer("mlx5e_tc_configure_matchall", "rep", f, {}, inst)
    ELSE IF f.command = "DESTROY"
    THEN installer("mlx5e_tc_delete_matchall", "rep", f, {}, inst)
    ELSE IF f.command = "STATS"
    THEN [installer("mlx5e_tc_stats_matchall", "rep", f, {}, inst) EXCEPT !.ret = "OK"]
    ELSE ClsResult("EOPNOTSUPP", f, <<>>)

\* mlx5e_rep_setup_tc_cb
mlx5e_rep_setup_tc_cb(type, f, cfg, inst) ==
    LET flags == {"INGRESS", "ESW_OFFLOAD"}
    IN IF ~cfg.present THEN ClsResult("EOPNOTSUPP", f, <<>>)
       ELSE IF type = "CLSFLOWER" THEN mlx5e_rep_setup_tc_cls_flower(f, flags, inst)
       ELSE IF type = "CLSMATCHALL" THEN mlx5e_rep_setup_tc_cls_matchall(f, inst)
       ELSE ClsResult("EOPNOTSUPP", f, <<>>)

\* A remap whose priority test lets the range's own value through.
setup_ft_cb_prio_off_by_one(type, f, cfg, inst) ==
    LET flags == {"INGRESS", "ESW_OFFLOAD", "FT_OFFLOAD"}
    IN IF type = "CLSFLOWER"
       THEN IF ~cfg.prios_supported THEN ClsResult("EOPNOTSUPP", f, <<>>)
            ELSE IF f.prio > cfg.prio_range THEN ClsResult("EOPNOTSUPP", f, <<>>)
            ELSE IF f.chain_index # 0 THEN ClsResult("EOPNOTSUPP", f, <<>>)
            ELSE LET tmp == [f EXCEPT !.chain_index = mlx5_chains_get_nf_ft_chain,
                                      !.prio = @ + 1]
                     r == mlx5e_rep_setup_tc_cls_flower(tmp, flags, inst)
                 IN ClsResult(r.ret, [f EXCEPT !.stats = r.f.stats], r.calls)
       ELSE ClsResult("EOPNOTSUPP", f, <<>>)

\* mlx5e_rep_setup_ft_cb: the command is copied to tmp, tmp is moved to the
\* reserved chain with its priority raised by one and replayed through the tc
\* path, and tmp's stats are copied back.
mlx5e_rep_setup_ft_cb(type, f, cfg, inst) ==
    LET flags == {"INGRESS", "ESW_OFFLOAD", "FT_OFFLOAD"}
    IN IF type = "CLSFLOWER"
       THEN IF ~cfg.prios_supported THEN ClsResult("EOPNOTSUPP", f, <<>>)
            ELSE IF f.prio >= cfg.prio_range THEN ClsResult("EOPNOTSUPP", f, <<>>)
            ELSE IF f.chain_index # 0 THEN ClsResult("EOPNOTSUPP", f, <<>>)
            ELSE LET tmp == [f EXCEPT !.chain_index = mlx5_chains_get_nf_ft_chain,
                                      !.prio = @ + 1]
                     r == mlx5e_rep_setup_tc_cls_flower(tmp, flags, inst)
                 IN ClsResult(r.ret, [f EXCEPT !.stats = r.f.stats], r.calls)
       ELSE ClsResult("EOPNOTSUPP", f, <<>>)

\* mlx5e_rep_indr_offload
mlx5e_rep_indr_offload(netdev, f, flags, cfg, inst) ==
    IF ~cfg.present THEN ClsResult("EOPNOTSUPP", f, <<>>)
    ELSE IF f.command = "REPLACE"
    THEN installer("mlx5e_configure_flower", netdev, f, flags, inst)
    ELSE IF f.command = "DESTROY"
    THEN installer("mlx5e_delete_flower", netdev, f, flags, inst)
    ELSE IF f.command = "STATS"
    THEN installer("mlx5e_stats_flower", netdev, f, flags, inst)
    ELSE ClsResult("EOPNOTSUPP", f, <<>>)

\* mlx5e_rep_indr_setup_tc_cb
mlx5e_rep_indr_setup_tc_cb(type, f, indr_priv, cfg, inst) ==
    LET flags == {"ESW_OFFLOAD"} \cup
                 (IF indr_priv.binder_type = "CLSACT_EGRESS"
                  THEN {"EGRESS"} ELSE {"INGRESS"})
    IN IF type = "CLSFLOWER"
       THEN mlx5e_rep_indr_offload(indr_priv.netdev, f, flags, cfg, inst)
       ELSE ClsResult("EOPNOTSUPP", f, <<>>)

\* An indirect remap that does not copy the stats back.
indr_setup_ft_cb_no_copy_back(type, f, indr_priv, cfg, inst) ==
    LET flags == {"EGRESS", "ESW_OFFLOAD", "FT_OFFLOAD"}
    IN IF type = "CLSFLOWER"
       THEN IF ~cfg.prios_supported \/ f.prio >= cfg.prio_range \/ f.chain_index # 0
            THEN ClsResult("EOPNOTSUPP", f, <<>>)
            ELSE LET tmp == [f EXCEPT !.chain_index = mlx5_chains_get_nf_ft_chain,
                                      !.prio = @ + 1]
                     r == mlx5e_rep_indr_offload(indr_priv.netdev, tmp, flags, cfg, inst)
                 IN ClsResult(r.ret, f, r.calls)
       ELSE ClsResult("EOPNOTSUPP", f, <<>>)

\* mlx5e_rep_indr_setup_ft_cb
mlx5e_rep_indr_setup_ft_cb(type, f, indr_priv, cfg, inst) ==
    LET flags == {"EGRESS", "ESW_OFFLOAD", "FT_OFFLOAD"}
    IN IF type = "CLSFLOWER"
       THEN IF ~cfg.prios_supported \/ f.prio >= cfg.prio_range \/ f.chain_index # 0
            THEN ClsResult("EOPNOTSUPP", f, <<>>)
            ELSE LET tmp == [f EXCEPT !.chain_index = mlx5_chains_get_nf_ft_chain,
                                      !.prio = @ + 1]
                     r == mlx5e_rep_indr_offload(indr_priv.netdev, tmp, flags, cfg, inst)
                 IN ClsResult(r.ret, [f EXCEPT !.stats = r.f.stats], r.calls)
       ELSE ClsResult("EOPNOTSUPP", f, <<>>)

\* The callback has run: the caller's descriptor is what the callback left,
\* and the call is recorded.
ClsDone(r) ==
    /\ cls_f' = r.f
    /\ cls_call' = [done |-> TRUE, f_in |-> cls_f, calls |-> r.calls, ret |-> r.ret]
    /\ UNCHANGED <<cls_cfg, cls_req, notCls>>

Insts == [ret : InstallerRets, stats : StatsVals]

\* The switch port's tc block callback
RepSetupTcCb ==
    /\ cls_req.path = "rep_tc" /\ ~cls_call.done
    /\ \E inst \in Insts :
          ClsDone(mlx5e_rep_setup_tc_cb(cls_req.type, cls_f, cls_cfg, inst))

\* The switch port's flow-table block callback
RepSetupFtCb ==
    /\ cls_req.path = "rep_ft" /\ ~cls_call.done
    /\ \E inst \in Insts :
          ClsDone(mlx5e_rep_setup_ft_cb(cls_req.type, cls_f, cls_cfg, inst))

\* The tc block callback of an indirect binding
IndrSetupTcCb ==
    /\ cls_req.path = "indr_tc" /\ ~cls_call.done
    /\ \E inst \in Insts :
          ClsDone(mlx5e_rep_indr_setup_tc_cb(cls_req.type, cls_f, cls_req.indr_priv,
                                             cls_cfg, inst))

\* The flow-table block callback of an indirect binding
IndrSetupFtCb ==
    /\ cls_req.path = "indr_ft" /\ ~cls_call.done
    /\ \E inst \in Insts :
          ClsDone(mlx5e_rep_indr_setup_ft_cb(cls_req.type, cls_f, cls_req.indr_priv,
                                             cls_cfg, inst))

\* The bindings an indirect callback may belong to.
IndrPrivs == {[netdev |-> "vxlan0", binder_type |-> "CLSACT_INGRESS"],
              [netdev |-> "ovs0", binder_type |-> "CLSACT_EGRESS"]}

\* A device, a callback about to be invoked, and the descriptor it is given.
InitCls ==
    /\ cls_cfg \in [prios_supported : BOOLEAN, prio_range : 1..MaxPrioRange,
                    present : BOOLEAN]
    /\ cls_req \in [path : ClsPaths, type : SetupTypes, indr_priv : IndrPrivs]
    /\ cls_req.path \in {"rep_tc", "rep_ft"} => cls_req.indr_priv.netdev = "vxlan0"
    /\ cls_f \in [command : ClsCommands, chain_index : 0..MaxChainIdx,
                  prio : 0..MaxPrioRange, stats : StatsVals]
    /\ cls_call = [done |-> FALSE, f_in |-> cls_f, calls |-> <<>>, ret |-> NULL]

\* The callbacks left out.
OffCls == cls_cfg = NULL /\ cls_req = NULL /\ cls_f = NULL /\ cls_call = NULL

NextCls == RepSetupTcCb \/ RepSetupFtCb \/ IndrSetupTcCb \/ IndrSetupFtCb

\* ------------------------------------------------------------------------
\* Receive path: mlx5e_rep_tc_receive and the restore helpers
\* ------------------------------------------------------------------------

\* Bound: the width of the options id, the low field of a tunnel id.
ENC_OPTS_BITS == 1

\* Bound: the width of the base id, the high field of a tunnel id.
TUNNEL_INFO_BITS == 1

ENC_OPTS_BITS_MASK == 2^ENC_OPTS_BITS - 1

TUNNEL_ID_MASK == 2^(TUNNEL_INFO_BITS + ENC_OPTS_BITS) - 1

TunnelIds == 0..TUNNEL_ID_MASK

\* reg_c0: zero, the default flow tag, or an id of the object pool.
RegC0s == {"zero", "MLX5_FS_DEFAULT_FLOW_TAG", "obj_id"}

\* The outcomes of the calls that allocate or that other modules decide:
\* __ip_tun_set_dst, tc_skb_ext_alloc, mlx5e_tc_ct_restore_flow and
\* mlx5e_tc_int_port_dev_fwd.  The internal-port resolver either fails or
\* redirects the packet to the internal port's device, holding a reference
\* on it, and signals the egress path through forward_tx.
RxOutcomes == [tun_dst_ok : BOOLEAN, ext_ok : BOOLEAN, ct_ok : BOOLEAN,
               int_port : {"fail", "tx"}]

\* struct mlx5e_tc_update_priv tc_priv = {}
tc_priv_init == [fwd_dev |-> NULL]

\* No tunnel restore was made.
NoTunnelRestore ==
    [called |-> FALSE, tunnel_id |-> 0, ret |-> FALSE, skb_in |-> NULL,
     skb_out |-> NULL, fwd_dev |-> NULL, log |-> <<>>]

\* What a restore helper hands back: its return value, the packet and tc_priv
\* as it left them, forward_tx, the events it caused, and the record of the
\* mlx5e_restore_tunnel call it made.
Restored(ret, skb, tc_priv, forward_tx, log, tun) ==
    [ret |-> ret, skb |-> skb, tc_priv |-> tc_priv, forward_tx |-> forward_tx,
     log |-> log, tun |-> tun]

\* mlx5e_restore_tunnel past the test of the base id: the lookups, the tunnel
\* descriptor, the filter device.
restore_tunnel_decode(skb, tc_priv, tun_id, enc_opts_id, env, o) ==
    LET log1 == <<"mapping_find(tunnel_mapping)">>
        log2 == IF enc_opts_id # 0
                THEN Append(log1, "mapping_find(tunnel_enc_opts_mapping)") ELSE log1
        enc_opts_len == IF enc_opts_id # 0 THEN env.opts.len ELSE 0
        tun_dst == [family |-> IF env.tun.addr_type = "IPV4_ADDRS"
                               THEN "AF_INET" ELSE "AF_INET6",
                    options_len |-> enc_opts_len,
                    opts_set |-> enc_opts_len # 0]
        skb1 == [skb EXCEPT !.dst = tun_dst]
        set_dst == IF env.tun.addr_type = "IPV4_ADDRS"
                   THEN "__ip_tun_set_dst" ELSE "__ipv6_tun_set_dst"
        log2a == Append(log2, set_dst)
        log3 == log2a \o <<"skb_dst_set", "dev_get_by_index">>
    IN IF ~env.tun.found THEN [ret |-> FALSE, skb |-> skb, tc_priv |-> tc_priv, log |-> log1]
       ELSE IF enc_opts_id # 0 /\ ~env.opts.found
       THEN [ret |-> FALSE, skb |-> skb, tc_priv |-> tc_priv, log |-> log2]
       ELSE IF env.tun.addr_type \notin {"IPV4_ADDRS", "IPV6_ADDRS"}
       THEN [ret |-> FALSE, skb |-> skb, tc_priv |-> tc_priv, log |-> log2]
       ELSE IF ~o.tun_dst_ok
       THEN [ret |-> FALSE, skb |-> skb, tc_priv |-> tc_priv, log |-> log2a]
       ELSE IF env.dev = NULL
       THEN [ret |-> FALSE, skb |-> skb1, tc_priv |-> tc_priv, log |-> log3]
       ELSE [ret |-> TRUE, skb |-> [skb1 EXCEPT !.dev = env.dev],
             tc_priv |-> [tc_priv EXCEPT !.fwd_dev = env.dev],
             log |-> Append(log3, "dev_hold")]

\* A tunnel restore that looks up the base id even when it is zero.
restore_tunnel_without_zero_test(skb, tc_priv, tunnel_id, env, o) ==
    LET enc_opts_id == tunnel_id % (ENC_OPTS_BITS_MASK + 1)
        tun_id == tunnel_id \div 2^ENC_OPTS_BITS
        r == restore_tunnel_decode(skb, tc_priv, tun_id, enc_opts_id, env, o)
    IN Restored(r.ret, r.skb, r.tc_priv, FALSE, r.log,
                [called |-> TRUE, tunnel_id |-> tunnel_id, ret |-> r.ret,
                 skb_in |-> skb, skb_out |-> r.skb,
                 fwd_dev |-> r.tc_priv.fwd_dev, log |-> r.log])

\* mlx5e_restore_tunnel
mlx5e_restore_tunnel(skb, tc_priv, tunnel_id, env, o) ==
    LET enc_opts_id == tunnel_id % (ENC_OPTS_BITS_MASK + 1)
        tun_id == tunnel_id \div 2^ENC_OPTS_BITS
        r == IF tun_id = 0
             THEN [ret |-> TRUE, skb |-> skb, tc_priv |-> tc_priv, log |-> <<>>]
             ELSE restore_tunnel_decode(skb, tc_priv, tun_id, enc_opts_id, env, o)
    IN Restored(r.ret, r.skb, r.tc_priv, FALSE, r.log,
                [called |-> TRUE, tunnel_id |-> tunnel_id, ret |-> r.ret,
                 skb_in |-> skb, skb_out |-> r.skb,
                 fwd_dev |-> r.tc_priv.fwd_dev, log |-> r.log])

\* mlx5e_restore_skb_chain
mlx5e_restore_skb_chain(skb, chain, tunnel_id, tc_priv, env, o) ==
    LET skb1 == [skb EXCEPT !.tc_skb_ext = chain]
    IN IF chain # 0 /\ ~o.ext_ok
       THEN Restored(FALSE, skb, tc_priv, FALSE, <<"tc_skb_ext_alloc">>, NoTunnelRestore)
       ELSE IF chain # 0 /\ ~o.ct_ok
       THEN Restored(FALSE, skb1, tc_priv, FALSE,
                     <<"tc_skb_ext_alloc", "mlx5e_tc_ct_restore_flow">>, NoTunnelRestore)
       ELSE IF chain # 0
       THEN LET r == mlx5e_restore_tunnel(skb1, tc_priv, tunnel_id, env, o)
            IN [r EXCEPT !.log = <<"tc_skb_ext_alloc", "mlx5e_tc_ct_restore_flow">> \o @]
       ELSE mlx5e_restore_tunnel(skb, tc_priv, tunnel_id, env, o)

\* A post-receive step that forgets the pending forward device.
post_napi_receive_without_put(tc_priv) == <<>>

\* mlx5_rep_tc_post_napi_receive
mlx5_rep_tc_post_napi_receive(tc_priv) ==
    IF tc_priv.fwd_dev # NULL THEN <<"dev_put">> ELSE <<>>

\* A sample restore that hands the packet to the sampler whether or not the
\* tunnel was restored.
restore_skb_sample_ignores_failure(skb, mapped_obj, tc_priv, env, o) ==
    LET r == mlx5e_restore_tunnel(skb, tc_priv, mapped_obj.tunnel_id, env, o)
    IN [r EXCEPT !.log = @ \o <<"mlx5e_tc_sample_skb">>
                           \o mlx5_rep_tc_post_napi_receive(r.tc_priv)]

\* A sample restore that samples twice.
restore_skb_sample_twice(skb, mapped_obj, tc_priv, env, o) ==
    LET r == mlx5e_restore_tunnel(skb, tc_priv, mapped_obj.tunnel_id, env, o)
    IN IF ~r.ret THEN r
       ELSE [r EXCEPT !.log = @ \o <<"mlx5e_tc_sample_skb", "mlx5e_tc_sample_skb">>
                                \o mlx5_rep_tc_post_napi_receive(r.tc_priv)]

\* mlx5e_restore_skb_sample
mlx5e_restore_skb_sample(skb, mapped_obj, tc_priv, env, o) ==
    LET r == mlx5e_restore_tunnel(skb, tc_priv, mapped_obj.tunnel_id, env, o)
    IN IF ~r.ret THEN r
       ELSE [r EXCEPT !.log = @ \o <<"mlx5e_tc_sample_skb">>
                                \o mlx5_rep_tc_post_napi_receive(r.tc_priv)]

\* An internal-port restore that asks the resolver whatever the tunnel id.
restore_skb_int_port_without_precedence(skb, mapped_obj, tc_priv, tunnel_id, env, o) ==
    IF o.int_port # "fail"
    THEN LET skb1 == [skb EXCEPT !.dev = "ovs0"]
         IN Restored(TRUE, skb1, [tc_priv EXCEPT !.fwd_dev = skb1.dev],
                     o.int_port = "tx", <<"mlx5e_tc_int_port_dev_fwd", "dev_hold">>,
                     NoTunnelRestore)
    ELSE Restored(FALSE, skb, tc_priv, FALSE, <<"mlx5e_tc_int_port_dev_fwd">>,
                  NoTunnelRestore)

\* mlx5e_restore_skb_int_port
mlx5e_restore_skb_int_port(skb, mapped_obj, tc_priv, tunnel_id, env, o) ==
    IF tunnel_id # 0 THEN mlx5e_restore_tunnel(skb, tc_priv, tunnel_id, env, o)
    ELSE IF o.int_port # "fail"
    THEN LET skb1 == [skb EXCEPT !.dev = "ovs0"]
         IN Restored(TRUE, skb1, [tc_priv EXCEPT !.fwd_dev = skb1.dev],
                     o.int_port = "tx", <<"mlx5e_tc_int_port_dev_fwd", "dev_hold">>,
                     NoTunnelRestore)
    ELSE Restored(FALSE, skb, tc_priv, FALSE, <<"mlx5e_tc_int_port_dev_fwd">>,
                  NoTunnelRestore)

\* The label forward of mlx5e_rep_tc_receive
rx_forward(r, log) ==
    [r EXCEPT !.log = log \o @
                      \o <<IF r.forward_tx THEN "dev_queue_xmit" ELSE "napi_gro_receive">>
                      \o mlx5_rep_tc_post_napi_receive(r.tc_priv)]

\* The label free_skb of mlx5e_rep_tc_receive
rx_free_skb(r, log) == [r EXCEPT !.log = log \o @ \o <<"dev_kfree_skb_any">>]

\* A receive that forwards a chain packet whose restore failed, IPsec or not.
receive_forwards_failed_chain(cqe, skb, env, o) ==
    LET nothing == Restored(TRUE, skb, tc_priv_init, FALSE, <<>>, NoTunnelRestore)
        skb1 == [skb EXCEPT !.mark = 0]
        marked == Restored(TRUE, skb1, tc_priv_init, FALSE, <<>>, NoTunnelRestore)
        find == <<"mapping_find(reg_c0_obj_pool)">>
    IN IF cqe.reg_c0 \in {"zero", "MLX5_FS_DEFAULT_FLOW_TAG"}
       THEN rx_forward(nothing, <<>>)
       ELSE IF ~env.obj.found THEN rx_free_skb(marked, find)
       ELSE IF env.obj.type = "CHAIN"
       THEN rx_forward(mlx5e_restore_skb_chain(skb1, env.obj.chain, cqe.tunnel_id,
                                               tc_priv_init, env, o), find)
       ELSE IF env.obj.type = "SAMPLE"
       THEN rx_free_skb(mlx5e_restore_skb_sample(skb1, env.obj, tc_priv_init, env, o),
                        find)
       ELSE IF env.obj.type = "INT_PORT_METADATA"
       THEN LET r == mlx5e_restore_skb_int_port(skb1, env.obj, tc_priv_init,
                                                cqe.tunnel_id, env, o)
            IN IF ~r.ret THEN rx_free_skb(r, find) ELSE rx_forward(r, find)
       ELSE rx_free_skb(marked, find)

\* mlx5e_rep_tc_receive
mlx5e_rep_tc_receive(cqe, skb, env, o) ==
    LET nothing == Restored(TRUE, skb, tc_priv_init, FALSE, <<>>, NoTunnelRestore)
        skb1 == [skb EXCEPT !.mark = 0]
        marked == Restored(TRUE, skb1, tc_priv_init, FALSE, <<>>, NoTunnelRestore)
        find == <<"mapping_find(reg_c0_obj_pool)">>
    IN IF cqe.reg_c0 \in {"zero", "MLX5_FS_DEFAULT_FLOW_TAG"}
       THEN rx_forward(nothing, <<>>)
       ELSE IF ~env.obj.found THEN rx_free_skb(marked, find)
       ELSE IF env.obj.type = "CHAIN"
       THEN LET r == mlx5e_restore_skb_chain(skb1, env.obj.chain, cqe.tunnel_id,
                                             tc_priv_init, env, o)
            IN IF ~r.ret /\ ~cqe.ipsec_rx_flow
               THEN rx_free_skb(r, find) ELSE rx_forward(r, find)
       ELSE IF env.obj.type = "SAMPLE"
       THEN rx_free_skb(mlx5e_restore_skb_sample(skb1, env.obj, tc_priv_init, env, o),
                        find)
       ELSE IF env.obj.type = "INT_PORT_METADATA"
       THEN LET r == mlx5e_restore_skb_int_port(skb1, env.obj, tc_priv_init,
                                                cqe.tunnel_id, env, o)
            IN IF ~r.ret THEN rx_free_skb(r, find) ELSE rx_forward(r, find)
       ELSE rx_free_skb(marked, find)

\* A packet completes on the representor's receive queue.
RepTcReceive ==
    /\ ~rx_call.done
    /\ \E o \in RxOutcomes :
          \E r \in {mlx5e_rep_tc_receive(rx_cqe, rx_skb, rx_env, o)} :
             /\ rx_skb' = r.skb
             /\ rx_call' = [done |-> TRUE, skb_in |-> rx_skb, log |-> r.log,
                            tun |-> r.tun, fwd_dev |-> r.tc_priv.fwd_dev]
    /\ UNCHANGED <<rx_cqe, rx_env, notRx>>

\* A packet without tunnel metadata.
NoDst == [family |-> NULL, options_len |-> 0, opts_set |-> FALSE]

\* What the object pool may hold at reg_c0.
MappedObjs ==
    {[found |-> FALSE, type |-> NULL, chain |-> 0, tunnel_id |-> 0]}
    \cup {[found |-> TRUE, type |-> "CHAIN", chain |-> c, tunnel_id |-> 0] : c \in 0..1}
    \cup {[found |-> TRUE, type |-> "SAMPLE", chain |-> 0, tunnel_id |-> t] :
             t \in TunnelIds}
    \cup {[found |-> TRUE, type |-> t, chain |-> 0, tunnel_id |-> 0] :
             t \in {"INT_PORT_METADATA", "OTHER"}}

\* What the tunnel mapping may hold at the base id.
TunnelKeys ==
    {[found |-> FALSE, addr_type |-> NULL]}
    \cup {[found |-> TRUE, addr_type |-> t] :
             t \in {"IPV4_ADDRS", "IPV6_ADDRS", "OTHER"}}

\* What the options mapping may hold at the options id.
EncOpts ==
    {[found |-> FALSE, len |-> 0]} \cup {[found |-> TRUE, len |-> n] : n \in 0..1}

\* A packet has arrived on the representor and the tables hold some content.
InitRx ==
    /\ rx_cqe \in [reg_c0 : RegC0s, tunnel_id : TunnelIds, ipsec_rx_flow : BOOLEAN]
    /\ rx_env \in [obj : MappedObjs, tun : TunnelKeys, opts : EncOpts,
                   dev : {NULL, "vxlan0"}]
    /\ rx_skb \in [dev : {"rep"}, dst : {NoDst}, mark : 0..1, tc_skb_ext : {0}]
    /\ rx_call = [done |-> FALSE, skb_in |-> rx_skb, log |-> <<>>,
                  tun |-> NoTunnelRestore, fwd_dev |-> NULL]

\* The receive path left out.
OffRx == rx_cqe = NULL /\ rx_env = NULL /\ rx_skb = NULL /\ rx_call = NULL

NextRx == RepTcReceive

\* ------------------------------------------------------------------------
\* Action-only setup: mlx5e_rep_indr_setup_cb without a device
\* ------------------------------------------------------------------------

\* Bound: the largest number of entries in the action set of a request.
MaxActions == 2

\* enum flow_action_id, as far as the model tells them apart.
ActionIds == {"POLICE", "GACT"}

\* enum flow_act_command, and one value outside it.
ActCommands == {"REPLACE", "DESTROY", "STATS", "OTHER"}

NsTypes == {"FDB", "KERNEL"}

\* What mlx5e_tc_act_get may hand back for an id: nothing, a handler without
\* the action callbacks, or a handler with them.
ActKinds == {"none", "no_callbacks", "with_callbacks"}

\* The action sets of up to MaxActions entries.
ActionSets == UNION {[1..n -> ActionIds] : n \in 0..MaxActions}

\* flow_offload_has_one_action
flow_offload_has_one_action(action) == Len(action) = 1

\* The namespace the handlers are taken from.
act_ns_type(env) == IF env.esw_mode = "OFFLOADS" THEN "FDB" ELSE "KERNEL"

\* mlx5e_tc_act_get
mlx5e_tc_act_get(env, id, ns_type) == env.acts[ns_type][id]

\* flow_action_for_each in mlx5e_rep_indr_replace_act: the entries from the
\* first on; acc is add so far and the lookups and invocations made.
RECURSIVE replace_act_for_each(_, _, _, _)
replace_act_for_each(action, env, o, acc) ==
    IF action = <<>> THEN acc
    ELSE LET id == Head(action)
             act == mlx5e_tc_act_get(env, id, act_ns_type(env))
             got == Append(acc.log, [fn |-> "mlx5e_tc_act_get", id |-> id])
         IN replace_act_for_each(Tail(action), env, o,
               IF act # "with_callbacks" THEN [acc EXCEPT !.log = got]
               ELSE [add |-> acc.add \/ o[id] = "OK",
                     log |-> Append(got, [fn |-> "offload_action", id |-> id])])

\* A Replace that goes through the action set whatever its size.
replace_act_of_any_size(fl_act, env, o) ==
    LET r == replace_act_for_each(fl_act.action, env, o, [add |-> FALSE, log |-> <<>>])
    IN [ret |-> IF r.add THEN "OK" ELSE "EOPNOTSUPP", log |-> r.log]

\* mlx5e_rep_indr_replace_act
mlx5e_rep_indr_replace_act(fl_act, env, o) ==
    IF ~flow_offload_has_one_action(fl_act.action)
    THEN [ret |-> "EOPNOTSUPP", log |-> <<>>]
    ELSE LET r == replace_act_for_each(fl_act.action, env, o,
                                       [add |-> FALSE, log |-> <<>>])
         IN [ret |-> IF r.add THEN "OK" ELSE "EOPNOTSUPP", log |-> r.log]

\* mlx5e_rep_indr_destroy_act
mlx5e_rep_indr_destroy_act(fl_act, env, o) ==
    LET got == <<[fn |-> "mlx5e_tc_act_get", id |-> fl_act.id]>>
    IN IF mlx5e_tc_act_get(env, fl_act.id, act_ns_type(env)) # "with_callbacks"
       THEN [ret |-> "EOPNOTSUPP", log |-> got]
       ELSE [ret |-> o[fl_act.id],
             log |-> Append(got, [fn |-> "destroy_action", id |-> fl_act.id])]

\* mlx5e_rep_indr_stats_act
mlx5e_rep_indr_stats_act(fl_act, env, o) ==
    LET got == <<[fn |-> "mlx5e_tc_act_get", id |-> fl_act.id]>>
    IN IF mlx5e_tc_act_get(env, fl_act.id, act_ns_type(env)) # "with_callbacks"
       THEN [ret |-> "EOPNOTSUPP", log |-> got]
       ELSE [ret |-> o[fl_act.id],
             log |-> Append(got, [fn |-> "stats_action", id |-> fl_act.id])]

\* mlx5e_rep_indr_setup_act
mlx5e_rep_indr_setup_act(fl_act, env, o) ==
    IF fl_act.command = "REPLACE" THEN mlx5e_rep_indr_replace_act(fl_act, env, o)
    ELSE IF fl_act.command = "DESTROY" THEN mlx5e_rep_indr_destroy_act(fl_act, env, o)
    ELSE IF fl_act.command = "STATS" THEN mlx5e_rep_indr_stats_act(fl_act, env, o)
    ELSE [ret |-> "EOPNOTSUPP", log |-> <<>>]

\* mlx5e_rep_indr_no_dev_setup
mlx5e_rep_indr_no_dev_setup(req, env, o) ==
    IF ~req.has_data THEN [ret |-> "EOPNOTSUPP", log |-> <<>>]
    ELSE IF req.type = "ACT" THEN mlx5e_rep_indr_setup_act(req.fl_act, env, o)
    ELSE [ret |-> "EOPNOTSUPP", log |-> <<>>]

\* mlx5e_rep_indr_setup_cb called without a device.  The callbacks of the
\* handlers return OK or an error, per action id.
IndrSetupCbNoDev ==
    /\ ~act_call.done
    /\ \E o \in [ActionIds -> {"OK", "EINVAL"}] :
          \E r \in {mlx5e_rep_indr_no_dev_setup(act_req, act_env, o)} :
             act_call' = [done |-> TRUE, ret |-> r.ret, log |-> r.log]
    /\ UNCHANGED <<act_env, act_req, notAct>>

\* An eswitch with its registered handlers, and a request about to be made.
InitAct ==
    /\ act_env \in [esw_mode : {"OFFLOADS", "LEGACY"},
                    acts : [NsTypes -> [ActionIds -> ActKinds]]]
    /\ act_req \in [type : {"ACT", "BLOCK"}, has_data : BOOLEAN,
                    fl_act : [command : ActCommands, id : ActionIds,
                              action : ActionSets]]
    /\ act_call = [done |-> FALSE, ret |-> NULL, log |-> <<>>]

\* The action-only setup left out.
OffAct == act_env = NULL /\ act_req = NULL /\ act_call = NULL

NextAct == IndrSetupCbNoDev

\* ------------------------------------------------------------------------
\* The deferred reoffload work: enable, port-affinity event, disable
\* ------------------------------------------------------------------------

\* Bound: the number of port-affinity events of a behaviour.
MaxEvents == 3

\* queue_work(): the work is queued unless it is already pending or is being
\* cancelled; the result tells whether it was queued.
queue_work(work, cancelling) ==
    IF work.pending \/ cancelling
    THEN [work |-> work, queued |-> FALSE]
    ELSE [work |-> [work EXCEPT !.pending = TRUE], queued |-> TRUE]

\* cancel_work_sync(), first half: a pending work is taken off the queue.
cancel_work(work) == [work EXCEPT !.pending = FALSE]

\* cancel_work_sync(), second half: it returns once the work is not running.
work_flushed(work) == ~work.running

\* mlx5e_rep_tc_event_port_affinity: queue the work and acknowledge.
EventPortAffinity ==
    /\ ~torn_down
    /\ affinity.events < MaxEvents
    /\ \E r \in {queue_work(reoffload_flows_work, disable_pc = "cancelling")} :
          /\ reoffload_flows_work' = r.work
          /\ affinity' = [events |-> affinity.events + 1,
                          late |-> affinity.late \/ disable_pc = "returned",
                          ret |-> "NOTIFY_OK", queued |-> r.queued]
    /\ UNCHANGED <<disable_pc, torn_down, notWq>>

\* The workqueue starts the pending work: mlx5e_tc_reoffload_flows_work.
WorkStart ==
    /\ reoffload_flows_work.pending /\ ~reoffload_flows_work.running
    /\ reoffload_flows_work' = [reoffload_flows_work EXCEPT !.pending = FALSE,
                                                            !.running = TRUE]
    /\ UNCHANGED <<disable_pc, torn_down, affinity, notWq>>

\* The work function returns.
WorkDone ==
    /\ reoffload_flows_work.running
    /\ reoffload_flows_work' = [reoffload_flows_work EXCEPT !.running = FALSE,
                                                            !.runs = @ + 1]
    /\ UNCHANGED <<disable_pc, torn_down, affinity, notWq>>

\* mlx5e_rep_tc_disable is called: cancel_work_sync takes the work off the
\* queue.
TcDisableCall ==
    /\ disable_pc = "idle"
    /\ reoffload_flows_work' = cancel_work(reoffload_flows_work)
    /\ disable_pc' = "cancelling"
    /\ UNCHANGED <<torn_down, affinity, notWq>>

\* A disable that returns without waiting for a running work.
TcDisableReturnNoWait ==
    /\ disable_pc = "cancelling"
    /\ disable_pc' = "returned"
    /\ UNCHANGED <<reoffload_flows_work, torn_down, affinity, notWq>>

\* mlx5e_rep_tc_disable returns: cancel_work_sync has waited for a running
\* work to finish.
TcDisableReturn ==
    /\ disable_pc = "cancelling"
    /\ work_flushed(reoffload_flows_work)
    /\ disable_pc' = "returned"
    /\ UNCHANGED <<reoffload_flows_work, torn_down, affinity, notWq>>

\* The owner tears its state down after disable.
TearDown ==
    /\ disable_pc = "returned" /\ ~torn_down
    /\ torn_down' = TRUE
    /\ UNCHANGED <<reoffload_flows_work, disable_pc, affinity, notWq>>

\* mlx5e_rep_tc_enable: INIT_WORK
InitWq ==
    /\ reoffload_flows_work = [pending |-> FALSE, running |-> FALSE, runs |-> 0]
    /\ disable_pc = "idle"
    /\ torn_down = FALSE
    /\ affinity = [events |-> 0, late |-> FALSE, ret |-> NULL, queued |-> FALSE]

\* The deferred work left out.
OffWq ==
    /\ reoffload_flows_work = NULL /\ disable_pc = NULL
    /\ torn_down = NULL /\ affinity = NULL

NextWq ==
    \/ EventPortAffinity
    \/ WorkStart
    \/ WorkDone
    \/ TcDisableCall
    \/ TcDisableReturn
    \/ TearDown

\* ------------------------------------------------------------------------
\* Specifications: one per component, the others at rest
\* ------------------------------------------------------------------------

InitOfBind == InitBind /\ OffEncap /\ OffUpd /\ OffCls /\ OffRx /\ OffAct /\ OffWq

SpecBind == InitOfBind /\ [][NextBind]_vars

InitOfEncap == InitEncap /\ OffBind /\ OffUpd /\ OffCls /\ OffRx /\ OffAct /\ OffWq

SpecEncap == InitOfEncap /\ [][NextEncap]_vars

SpecEncapSeq == InitOfEncap /\ [][NextEncapSeq]_vars

InitOfUpd == InitUpd /\ OffBind /\ OffEncap /\ OffCls /\ OffRx /\ OffAct /\ OffWq

SpecUpdate == InitOfUpd /\ [][NextUpd]_vars

InitOfCls == InitCls /\ OffBind /\ OffEncap /\ OffUpd /\ OffRx /\ OffAct /\ OffWq

SpecCls == InitOfCls /\ [][NextCls]_vars

InitOfRx == InitRx /\ OffBind /\ OffEncap /\ OffUpd /\ OffCls /\ OffAct /\ OffWq

SpecRx == InitOfRx /\ [][NextRx]_vars

InitOfAct == InitAct /\ OffBind /\ OffEncap /\ OffUpd /\ OffCls /\ OffRx /\ OffWq

SpecAct == InitOfAct /\ [][NextAct]_vars

InitOfWq == InitWq /\ OffBind /\ OffEncap /\ OffUpd /\ OffCls /\ OffRx /\ OffAct

SpecWq == InitOfWq /\ [][NextWq]_vars

\* ------------------------------------------------------------------------
\* Claims on the indirect block registry
\* ------------------------------------------------------------------------

\* The pair the last request named.
CallPair(c) == [netdev |-> c.netdev, binder_type |-> c.binder_type]

InRegistry(pair) == \E i \in 1..Len(tc_indr_block_priv_list) :
                        tc_indr_block_priv_list[i] = pair

RegistryUnchanged ==
    /\ tc_indr_block_priv_list' = tc_indr_block_priv_list
    /\ flow_block_cbs' = flow_block_cbs
    /\ unbound_cbs' = unbound_cbs
    /\ mlx5e_block_cb_list' = mlx5e_block_cb_list

\* No two entries of the registry name the same (device, direction).
OneBindingPerPair ==
    \A i, j \in 1..Len(tc_indr_block_priv_list) :
        i # j => tc_indr_block_priv_list[i] # tc_indr_block_priv_list[j]

\* A Bind step for a pair that is in the registry returns EEXIST and changes
\* nothing.
BindOnBoundPairFails ==
    (indr_call'.op = "BIND" /\ InRegistry(CallPair(indr_call')))
        => (indr_call'.ret = "EEXIST" /\ RegistryUnchanged)

\* C1: after any sequence of Bind/Unbind requests on both setup types (failed
\* ones included) the registry holds at most one binding per (device,
\* direction), and a Bind for a pair already in the registry returns EEXIST
\* and leaves the registry unchanged.
C1_OneBindingPerPair ==
    []OneBindingPerPair /\ [][BindOnBoundPairFails]_vars

\* C1 witness: a Bind was refused with EEXIST while another pair is bound too.
C1_Witness ==
    /\ indr_call.op = "BIND" /\ indr_call.ret = "EEXIST"
    /\ InRegistry(CallPair(indr_call))
    /\ Len(tc_indr_block_priv_list) = 2

\* C2 (as stated): once an Unbind of a bound pair has returned success, the
\* next Bind of the same pair does not return EEXIST, wherever the release
\* callback of the binding falls.
C2_BindAfterUnbindSucceeds ==
    [][(/\ indr_call.op = "UNBIND" /\ indr_call.ret = "OK"
        /\ indr_call'.op = "BIND"
        /\ CallPair(indr_call') = CallPair(indr_call))
       => indr_call'.ret # "EEXIST"]_vars

\* An Unbind step that finds no binding for its pair, or whose pair was
\* already unbound and awaits its release callback.
UnbindOfUnbound(pair) ==
    \/ ~InRegistry(pair)
    \/ \E cb \in unbound_cbs : cb.cb_ident = pair

\* C3 (as stated): an Unbind for a pair that has no binding returns ENOENT
\* and changes nothing, whatever the pair.
C3_UnbindUnboundNotFound_Original ==
    [][(indr_call'.op = "UNBIND" /\ UnbindOfUnbound(CallPair(indr_call')))
       => (indr_call'.ret = "ENOENT" /\ RegistryUnchanged)]_vars

\* C3 (amended): an Unbind that passes the eligibility checks, for a pair that
\* has no binding, returns ENOENT and changes neither the registry nor the
\* block callbacks; so does a second Unbind after a successful one, before or
\* after the release callback.
C3_UnbindUnboundNotFound ==
    [][(/\ indr_call'.op = "UNBIND"
        /\ indr_setup_block_eligible(indr_call'.netdev, indr_call'.binder_type)
        /\ UnbindOfUnbound(CallPair(indr_call')))
       => (indr_call'.ret = "ENOENT" /\ RegistryUnchanged)]_vars

\* C3 witness: a second Unbind returned ENOENT while the first one's binding
\* still awaits its release callback.
C3_Witness ==
    /\ indr_call.op = "UNBIND" /\ indr_call.ret = "ENOENT"
    /\ \E cb \in unbound_cbs : cb.cb_ident = CallPair(indr_call)
    /\ InRegistry(CallPair(indr_call))

\* A Bind step that passes the eligibility and duplicate checks and whose
\* flow_indr_block_cb_alloc() fails.
BindCbAllocFails ==
    /\ indr_call'.op = "BIND"
    /\ indr_call'.alloc = "cb_alloc_fails"
    /\ indr_setup_block_eligible(indr_call'.netdev, indr_call'.binder_type)
    /\ ~InRegistry(CallPair(indr_call'))

\* C22: a Bind that passes the eligibility and duplicate checks and whose
\* block-callback allocation fails returns ENOMEM and leaves the registry and
\* the block callbacks as they were, without the pair; and a Bind for the same
\* pair that comes next is not refused with EEXIST.
C22_FailedBindLeavesNoBinding ==
    /\ [][BindCbAllocFails =>
             /\ indr_call'.ret = "ENOMEM"
             /\ RegistryUnchanged
             /\ \A i \in 1..Len(tc_indr_block_priv_list') :
                    tc_indr_block_priv_list'[i] # CallPair(indr_call')]_vars
    /\ [][(/\ indr_call.op = "BIND" /\ indr_call.alloc = "cb_alloc_fails"
            /\ indr_call.ret = "ENOMEM"
            /\ indr_call'.op = "BIND"
            /\ CallPair(indr_call') = CallPair(indr_call))
           => indr_call'.ret # "EEXIST"]_vars

\* C22 witness: the block-callback allocation of a Bind failed, with room in
\* the registry and another pair bound.
C22_Witness ==
    /\ indr_call.op = "BIND" /\ indr_call.alloc = "cb_alloc_fails"
    /\ indr_call.ret = "ENOMEM"
    /\ Len(tc_indr_block_priv_list) = 1
    /\ Len(tc_indr_block_priv_list) < MaxPriv
    /\ ~InRegistry(CallPair(indr_call))

\* The requests the eligibility rules refuse: a direction that is neither
\* ingress nor egress, egress on a device that is not an OVS internal port,
\* an OVS internal port without internal-port offload support, or a device in
\* none of the eligible classes (tunnel, vlan on the representor, OVS internal
\* port, passthru macvlan on the representor).
Ineligible(netdev, binder_type) ==
    LET d == DevInfo[netdev]
    IN \/ binder_type \notin {"CLSACT_INGRESS", "CLSACT_EGRESS"}
       \/ binder_type = "CLSACT_EGRESS" /\ d.kind # "ovs"
       \/ d.kind = "ovs" /\ ~int_port_supported
       \/ ~ \/ d.kind \in {"tun", "ovs"}
            \/ d.kind = "vlan" /\ d.real = "rep"
            \/ d.kind = "macvlan" /\ d.real = "rep" /\ d.mode = "passthru"

\* C24: a Bind or Unbind for an ineligible (device, direction) returns
\* EOPNOTSUPP, never EEXIST or ENOENT, and changes neither the registry nor
\* the block callbacks; a request that is not ineligible is not refused with
\* EOPNOTSUPP.
C24_IneligibleRejectedFirst ==
    [][indr_call'.op \in {"BIND", "UNBIND"} =>
          IF Ineligible(indr_call'.netdev, indr_call'.binder_type)
          THEN indr_call'.ret = "EOPNOTSUPP" /\ RegistryUnchanged
          ELSE indr_call'.ret # "EOPNOTSUPP"]_vars

\* C24 witness: an Unbind of a pair that has no binding was refused with
\* EOPNOTSUPP because egress is not offered for a tunnel device, while another
\* pair is bound.
C24_Witness ==
    /\ indr_call.op = "UNBIND" /\ indr_call.ret = "EOPNOTSUPP"
    /\ indr_call.netdev = "vxlan0" /\ indr_call.binder_type = "CLSACT_EGRESS"
    /\ ~InRegistry(CallPair(indr_call))
    /\ tc_indr_block_priv_list # <<>>


\* ------------------------------------------------------------------------
\* Claims on attach and detach
\* ------------------------------------------------------------------------

\* The encap entries that hold a reference on neighbour entry n: those whose
\* e->nhe points to it and have not released it, and an attach that has
\* obtained it and is about to store it in e->nhe.
NheHolders(n) ==
    {e \in Entries : \/ e_nhe[e] = n /\ pc[e] # "clear_nhe"
                     \/ pc[e] = "set_nhe" /\ enc_l[e].nhe = n}

\* C4: for every sequence (and interleaving) of attach and detach calls, failed
\* attaches and detaches of unattached entries included, each neighbour
\* entry's refcount equals the number of encap entries referencing it, and an
\* entry that is referenced is live (not destroyed, refcount not zero).
C4_RefcountEqualsReferences ==
    /\ \A n \in NheIds :
          neigh[n].refcnt = Cardinality(NheHolders(n))
    /\ \A e \in Entries :
          (e_nhe[e] # 0 /\ pc[e] # "clear_nhe")
              => (neigh[e_nhe[e]].live /\ neigh[e_nhe[e]].refcnt > 0)

\* C4 witness: a detach has returned and left a neighbour entry with two
\* attached encap entries.
C4_Witness ==
    /\ AllIdle
    /\ enc_last.op = "detach" /\ enc_last.e \in Entries
    /\ \E n \in NheIds :
          /\ neigh[n].live /\ neigh[n].refcnt = 2
          /\ Cardinality({e \in Entries : e_nhe[e] = n}) = 2

\* C5: when an attach has failed at the creation of the neighbour entry, the
\* error is returned, the entropy refcount of the entry's reformat type is
\* what it was before the call, the table update lock is free, and the encap
\* entry is unattached: no back-reference, in no encap list.
C5_CreateFailureRollsBack ==
    (AllIdle /\ enc_last.op = "attach" /\ enc_last.ret = "ENOMEM")
        => /\ entropy[ReformatType[enc_last.e]] = enc_last.ent0
           /\ encap_lock = NULL
           /\ e_nhe[enc_last.e] = 0
           /\ \A n \in NheIds : enc_last.e \notin Range(neigh[n].encap_list)

\* C5 witness: an attach failed at the creation while another encap entry of
\* the same reformat type is attached.
C5_Witness ==
    /\ AllIdle /\ enc_last.op = "attach" /\ enc_last.ret = "ENOMEM"
    /\ enc_last.ent0 = 1
    /\ entropy[ReformatType[enc_last.e]] = 1

\* ------------------------------------------------------------------------
\* Claims on locking, list membership and the entropy refcount
\* ------------------------------------------------------------------------

\* The step adds e to, or removes e from, the encap list of n.
Adds(e, n) == neigh'[n].encap_list = list_add(e, neigh[n].encap_list)
                 /\ neigh'[n].encap_list # neigh[n].encap_list

Removes(e, n) == neigh'[n].encap_list = list_del(e, neigh[n].encap_list)
                    /\ neigh'[n].encap_list # neigh[n].encap_list

\* The step takes the table update lock for e, or the list lock of n for e.
TakesTableLock(e) == encap_lock' = e /\ encap_lock # e

TakesListLock(e, n) == neigh'[n].lock = e /\ neigh[n].lock # e

\* No step takes the table update lock for a caller that holds a list lock.
TableLockOuter ==
    \A e \in Entries : TakesTableLock(e) => \A n \in NheIds : neigh[n].lock # e

\* C17 (as stated): every change of list membership, by attach and by detach,
\* is made holding the table update lock and the list lock, and the table
\* update lock is never taken while a list lock is held.
MembershipUnderBothLocks ==
    /\ \A n \in NheIds : neigh'[n].encap_list # neigh[n].encap_list =>
          \E e \in Entries : /\ Adds(e, n) \/ Removes(e, n)
                             /\ neigh[n].lock = e /\ encap_lock = e
    /\ TableLockOuter

C17_BothLocksHeld_Original == [][MembershipUnderBothLocks]_vars

\* C17 (amended): attach holds the table update lock and, taken inside it,
\* the list lock while it adds the entry; detach holds the list lock, and not
\* the table update lock, while it removes the entry; no membership changes
\* without the list lock, and the table update lock is never taken while a
\* list lock is held.
MembershipUnderListLock ==
    /\ \A n \in NheIds : neigh'[n].encap_list # neigh[n].encap_list =>
          \E e \in Entries :
             /\ neigh[n].lock = e
             /\ \/ Adds(e, n) /\ encap_lock = e
                \/ Removes(e, n) /\ encap_lock # e
    /\ \A e \in Entries, n \in NheIds :
          (TakesListLock(e, n) /\ pc[e] = "spin_lock") => encap_lock = e
    /\ TableLockOuter

C17_ListLockHeld == [][MembershipUnderListLock]_vars

\* C17 witness: a detach has removed its entry under the list lock while an
\* attach of another entry holds the table update lock.
C17_Witness ==
    /\ pc["e1"] = "d_spin_unlock"
    /\ neigh[e_nhe["e1"]].lock = "e1"
    /\ "e1" \notin Range(neigh[e_nhe["e1"]].encap_list)
    /\ encap_lock = "e2"
    /\ pc["e3"] = "mutex_lock"

\* The lists an entry is a member of, and how often it occurs in a list.
ListsOf(e) == {n \in NheIds : e \in Range(neigh[n].encap_list)}

Occurrences(e, n) ==
    Cardinality({i \in 1..Len(neigh[n].encap_list) : neigh[n].encap_list[i] = e})

\* An entry with no call in progress is on the list of the neighbour entry it
\* references, once, and on no other; with a null back-reference it is on none.
MembershipMatchesBackReference ==
    \A e \in Entries : pc[e] = "idle" =>
        IF e_nhe[e] = 0 THEN ListsOf(e) = {}
        ELSE /\ ListsOf(e) = {e_nhe[e]}
             /\ Occurrences(e, e_nhe[e]) = 1
             /\ neigh[e_nhe[e]].live

\* A detach of an entry with a null back-reference returns at once.
NullDetachChangesNothing ==
    \A e \in Entries :
       (/\ pc[e] = "idle" /\ e_nhe[e] = 0 /\ pc' = pc
        /\ enc_last'.op = "detach" /\ enc_last'.e = e)
          => UNCHANGED <<e_nhe, neigh, entropy, encap_lock>>

\* C18: whenever no attach or detach is in progress on an entry, its
\* back-reference is non-null iff the entry is on the encap list of exactly
\* the neighbour entry it references; a detach of an entry with a null
\* back-reference changes no list, refcount or entropy refcount.
C18_MembershipConsistent ==
    []MembershipMatchesBackReference /\ [][NullDetachChangesNothing]_vars

\* C18 witness: two entries are attached to the same neighbour entry and on
\* its list, and the last call was a detach of the third, which is not
\* attached and whose reformat type has no user.
C18_Witness ==
    /\ AllIdle
    /\ e_nhe["e1"] # 0 /\ e_nhe["e2"] = e_nhe["e1"]
    /\ Len(neigh[e_nhe["e1"]].encap_list) = 2
    /\ e_nhe["e3"] = 0
    /\ enc_last.e = "e3" /\ enc_last.op = "detach" /\ enc_last.ent0 = 0
    /\ entropy[ReformatType["e3"]] = 0

\* The entries that hold a unit of their reformat type's entropy refcount: the
\* attached ones and those with a call past its increment or before its
\* decrement.
EntropyUsers(t) ==
    {e \in Entries : ReformatType[e] = t /\ (e_nhe[e] # 0 \/ pc[e] # "idle")}

\* C19: the entropy refcount of each reformat type equals the number of
\* entries of that type that are attached or inside a call that has
\* incremented and not yet decremented; with no call in progress it is the
\* number of attached entries of the type.
C19_EntropyCountsAttached ==
    \A t \in ReformatTypes : entropy[t] = Cardinality(EntropyUsers(t))

\* C19 witness: with no call in progress, two entries of one type are attached
\* and counted, and the last call was an attach of the third that failed at
\* the creation of the neighbour entry and left its type's count at zero.
C19_Witness ==
    /\ AllIdle
    /\ e_nhe["e1"] # 0 /\ e_nhe["e2"] # 0 /\ e_nhe["e3"] = 0
    /\ entropy[ReformatType["e1"]] = 2
    /\ enc_last.e = "e3" /\ enc_last.op = "attach" /\ enc_last.ret = "ENOMEM"
    /\ entropy[ReformatType["e3"]] = 0

\* An attach of e is past its lookup or creation and before its return: it
\* holds the neighbour entry enc_l[e].nhe and is linking e into it.
Linking(e) ==
    pc[e] \in {"set_nhe", "spin_lock", "list_add", "spin_unlock", "mutex_unlock"}

\* C21: under every interleaving of attach and detach calls, no two live
\* neighbour entries have the same key, and an attach links its entry only
\* into a neighbour entry that is live, has the key asked for and is kept
\* alive by the attach's own reference; no destroyed neighbour entry has an
\* encap entry on its list, and none is pointed at by an encap entry other
\* than the one whose detach has just released it (tc.c:86-87).
C21_OneNeighbourPerKey ==
    /\ \A n, m \in NheIds :
          (neigh[n].live /\ neigh[m].live /\ neigh[n].key = neigh[m].key) => n = m
    /\ \A e \in Entries : Linking(e) =>
          /\ neigh[enc_l[e].nhe].live
          /\ neigh[enc_l[e].nhe].key = enc_l[e].key
          /\ neigh[enc_l[e].nhe].refcnt >= 1
    /\ \A e \in Entries :
          (e_nhe[e] # 0 /\ pc[e] # "clear_nhe") => neigh[e_nhe[e]].live
    /\ \A n \in NheIds : ~neigh[n].live => neigh[n].encap_list = <<>>

\* C21 witness: two first attaches race for one key; one has created the
\* neighbour entry under the table update lock, the other waits for the lock,
\* while the detach of a third entry is about to drop the last reference of
\* the other neighbour entry.
C21_Witness ==
    /\ pc["e1"] = "set_nhe" /\ enc_l["e1"].key = "n1" /\ encap_lock = "e1"
    /\ neigh[enc_l["e1"].nhe].refcnt = 1
    /\ pc["e2"] = "mutex_lock" /\ enc_l["e2"].key = "n1"
    /\ pc["e3"] = "release" /\ neigh[e_nhe["e3"]].key = "n2"
    /\ neigh[e_nhe["e3"]].refcnt = 1

\* ------------------------------------------------------------------------
\* Claims on mlx5e_rep_update_flows
\* ------------------------------------------------------------------------

\* The hardware operations of the last call that install flows.
Installs(c) == {i \in 1..Len(c.log) : c.log[i].op = "add"}

\* A call whose arguments are the state the entry is in does nothing.
UpdateInStateIsNoOp ==
    (/\ upd_call'.op = "update_flows"
     /\ encap.valid = upd_call'.neigh_connected
     /\ encap.h_dest = upd_call'.ha)
        => (upd_call'.log = <<>> /\ encap' = encap)

\* The second of two calls in a row with the same arguments installs nothing.
UpdateTwiceInstallsOnce ==
    (/\ upd_call.op = "update_flows" /\ upd_call'.op = "update_flows"
     /\ upd_call'.neigh_connected = upd_call.neigh_connected
     /\ upd_call'.ha = upd_call.ha)
        => Installs(upd_call') = {}

\* C6: update_flows is idempotent: when the entry's validity and stored
\* destination MAC already equal the requested (connected, mac), the call
\* tears down no flow, installs no flow and changes no header byte; so the
\* second of two calls in a row with the same arguments reinstalls nothing.
C6_UpdateFlowsIdempotent ==
    [][UpdateInStateIsNoOp /\ UpdateTwiceInstallsOnce]_vars

\* C6 witness: a call on a valid entry with flows, with the state it is in,
\* right after the call that installed them: nothing was done.
C6_Witness ==
    /\ upd_call.op = "update_flows" /\ upd_call.log = <<>>
    /\ upd_call.neigh_connected /\ encap.valid /\ encap.h_dest = upd_call.ha
    /\ encap.offloaded = Flows
    /\ encap.eth_h_dest = upd_call.ha

\* The positions of the call's tear-downs and installs in its log.
OpsOf(c, op) == {i \in 1..Len(c.log) : c.log[i].op = op}

\* C16: within one update_flows call the snapshotted flows are torn down iff
\* the entry is valid on entry and the request is disconnected or carries
\* another MAC; they are installed iff the request is connected and the entry
\* is invalid at that point (invalid on entry, or just torn down), with the
\* stored and the header destination MAC rewritten to the requested one
\* first; each happens at most once, on the entry's flows, and a tear-down
\* comes before the install.
UpdateTearsDownThenInstalls ==
    LET c == upd_call'
        torn == OpsOf(c, "del")
        added == OpsOf(c, "add")
    IN /\ Cardinality(torn) <= 1 /\ Cardinality(added) <= 1
       /\ (torn # {}) = (encap.valid /\ (~c.neigh_connected \/ encap.h_dest # c.ha))
       /\ (added # {}) = (c.neigh_connected /\ (~encap.valid \/ torn # {}))
       /\ \A i \in torn : c.log[i].flows = encap.flows
       /\ \A i \in added : /\ c.log[i].flows = encap.flows
                           /\ c.log[i].h_dest = c.ha
                           /\ encap'.h_dest = c.ha /\ encap'.eth_h_dest = c.ha
                           /\ encap'.valid
       /\ \A i \in torn, j \in added : i < j
       /\ (torn # {} /\ added = {}) => ~encap'.valid

C16_TearDownBeforeInstall == [][UpdateTearsDownThenInstalls]_vars

\* C16 witness: a MAC change on a valid, connected entry with flows was a
\* tear-down with the old MAC in the header followed by an install with the
\* new one.
C16_Witness ==
    /\ upd_call.op = "update_flows" /\ upd_call.neigh_connected
    /\ Len(upd_call.log) = 2
    /\ upd_call.log[1].op = "del" /\ upd_call.log[2].op = "add"
    /\ upd_call.log[1].h_dest # upd_call.ha
    /\ upd_call.log[2].h_dest = upd_call.ha
    /\ upd_call.log[2].flows = Flows
    /\ encap.valid /\ encap.eth_h_dest = upd_call.ha

\* ------------------------------------------------------------------------
\* Claims on the flow-table remap
\* ------------------------------------------------------------------------

\* A flow-table remap callback has run, on either path.
FtCallDone == cls_call.done /\ cls_req.path \in {"rep_ft", "indr_ft"}

\* C7: on both flow-table remap paths a command whose chain index is not 0 or
\* whose priority is at or above the priority range is rejected with
\* EOPNOTSUPP, the installer is not invoked, and the caller's descriptor,
\* stats included, is as it was.
C7_RemapRejectsChainAndPrio ==
    (/\ FtCallDone
     /\ \/ cls_call.f_in.chain_index # 0
        \/ cls_call.f_in.prio >= cls_cfg.prio_range)
        => /\ cls_call.ret = "EOPNOTSUPP"
           /\ cls_call.calls = <<>>
           /\ cls_f = cls_call.f_in

\* C7 witness: a flower command of priority exactly the range, on chain 0 of a
\* present device that supports priorities, was rejected on the switch-port
\* path.
C7_Witness ==
    /\ FtCallDone /\ cls_req.path = "rep_ft" /\ cls_req.type = "CLSFLOWER"
    /\ cls_cfg.prios_supported /\ cls_cfg.present
    /\ cls_call.f_in.chain_index = 0
    /\ cls_call.f_in.prio = cls_cfg.prio_range
    /\ cls_call.f_in.command = "REPLACE"
    /\ cls_call.ret = "EOPNOTSUPP"

\* What C8 says of a call: the installer ran once, on the reserved chain with
\* the priority raised by one; the caller's descriptor keeps its chain and
\* priority and has the installer's stats; the installer's result is returned.
RemappedOnce ==
    /\ Len(cls_call.calls) = 1
    /\ cls_call.calls[1].chain_index = mlx5_chains_get_nf_ft_chain
    /\ cls_call.calls[1].prio = cls_call.f_in.prio + 1
    /\ cls_call.calls[1].prio \in 1..cls_cfg.prio_range
    /\ cls_f.chain_index = 0
    /\ cls_f.prio = cls_call.f_in.prio
    /\ cls_f.command = cls_call.f_in.command
    /\ cls_f.stats = cls_call.calls[1].stats
    /\ cls_call.ret = cls_call.calls[1].ret

\* C8 (as stated): every flower command with chain index 0 and a priority
\* below the range is remapped and installed once.
C8_RemapInstallsOnce_Original ==
    (/\ FtCallDone /\ cls_req.type = "CLSFLOWER"
     /\ cls_call.f_in.chain_index = 0
     /\ cls_call.f_in.prio < cls_cfg.prio_range)
        => RemappedOnce

\* C8 (amended): such a command is remapped and installed once provided the
\* device supports chains and priorities, the command is Replace, Destroy or
\* Stats, and, on the indirect path, the switch-port device is present.
C8_RemapInstallsOnce ==
    (/\ FtCallDone /\ cls_req.type = "CLSFLOWER"
     /\ cls_call.f_in.chain_index = 0
     /\ cls_call.f_in.prio < cls_cfg.prio_range
     /\ cls_cfg.prios_supported
     /\ cls_call.f_in.command \in {"REPLACE", "DESTROY", "STATS"}
     /\ (cls_req.path = "indr_ft" => cls_cfg.present))
        => RemappedOnce

\* C8 witness: a Stats command on the indirect path was remapped, and the
\* stats the installer produced replaced the caller's.
C8_Witness ==
    /\ FtCallDone /\ cls_req.path = "indr_ft" /\ cls_req.type = "CLSFLOWER"
    /\ cls_call.f_in.command = "STATS"
    /\ cls_call.f_in.chain_index = 0 /\ cls_call.f_in.prio = 1
    /\ Len(cls_call.calls) = 1 /\ cls_call.calls[1].prio = 2
    /\ cls_call.ret = "OK"
    /\ cls_f.stats # cls_call.f_in.stats

\* C23 (as stated): on each of the four classifier callbacks a command issued
\* while the switch-port device is not present returns EOPNOTSUPP and the
\* installer is not invoked.
C23_AbsentDeviceRejected ==
    (cls_call.done /\ ~cls_cfg.present)
        => cls_call.ret = "EOPNOTSUPP" /\ cls_call.calls = <<>>

\* ------------------------------------------------------------------------
\* Claims on the receive path
\* ------------------------------------------------------------------------

InLog(ev) == \E i \in 1..Len(rx_call.log) : rx_call.log[i] = ev

\* The packet was dropped: freed, and neither delivered nor forwarded.
Dropped ==
    /\ InLog("dev_kfree_skb_any")
    /\ ~InLog("napi_gro_receive")
    /\ ~InLog("dev_queue_xmit")

\* The receive made a tunnel restore and it failed: a base id or a nonzero
\* options id was not found, the address type was neither IPv4 nor IPv6, the
\* descriptor could not be allocated, or the filter device was not found.
TunnelRestoreFailed == rx_call.done /\ rx_call.tun.called /\ ~rx_call.tun.ret

\* C9 (as stated): whenever tunnel restore fails for a received packet, the
\* packet is dropped, neither delivered up the stack nor forwarded.
C9_RestoreFailureDrops_Original == TunnelRestoreFailed => Dropped

\* C9 (amended): whenever tunnel restore fails the packet is dropped, unless
\* the mapped object is a chain and the completion is an IPsec rx flow.
C9_RestoreFailureDrops ==
    (/\ TunnelRestoreFailed
     /\ ~(rx_env.obj.type = "CHAIN" /\ rx_cqe.ipsec_rx_flow))
        => Dropped

\* C9 witness: a chain packet that is no IPsec rx flow, whose tunnel was decoded
\* and attached but whose filter device was not found, was freed.
C9_Witness ==
    /\ TunnelRestoreFailed
    /\ rx_env.obj.type = "CHAIN" /\ ~rx_cqe.ipsec_rx_flow
    /\ rx_env.tun.found /\ rx_env.tun.addr_type = "IPV6_ADDRS" /\ rx_env.dev = NULL
    /\ InLog("dev_get_by_index")
    /\ Dropped

\* C10: tunnel restore with tunnel id 0 returns success without consulting the
\* mapping service and leaves the packet as it was: no tunnel metadata, the
\* same device, no pending forward device.
C10_TunnelIdZeroIsTrivial ==
    (rx_call.done /\ rx_call.tun.called /\ rx_call.tun.tunnel_id = 0)
        => /\ rx_call.tun.ret
           /\ rx_call.tun.log = <<>>
           /\ rx_call.tun.skb_out = rx_call.tun.skb_in
           /\ rx_call.tun.skb_out.dst = NoDst
           /\ rx_call.tun.fwd_dev = NULL

\* C10 witness: a chain packet with tunnel id 0 went through tunnel restore
\* while the tunnel mapping held a key and the filter device existed, and was
\* delivered.
C10_Witness ==
    /\ rx_call.done /\ rx_call.tun.called /\ rx_call.tun.tunnel_id = 0
    /\ rx_env.obj.type = "CHAIN"
    /\ rx_env.tun.found /\ rx_env.tun.addr_type = "IPV4_ADDRS" /\ rx_env.dev # NULL
    /\ InLog("napi_gro_receive")

\* How often an event occurs in the receive, and where it first does.
Count(ev) == Cardinality({i \in 1..Len(rx_call.log) : rx_call.log[i] = ev})

Pos(ev) == CHOOSE i \in 1..Len(rx_call.log) : rx_call.log[i] = ev

\* The receive decoded reg_c0 to a mapped object of the given type.
Decoded(type) ==
    /\ rx_call.done /\ rx_cqe.reg_c0 = "obj_id"
    /\ rx_env.obj.found /\ rx_env.obj.type = type

\* The tables hold what the tunnel id refers to: the base id is nonzero and
\* mapped to an IPv4 or IPv6 key, a nonzero options id is mapped, and the
\* filter device exists.
ValidTunnelId(tunnel_id) ==
    /\ tunnel_id \div 2^ENC_OPTS_BITS # 0
    /\ rx_env.tun.found /\ rx_env.tun.addr_type \in {"IPV4_ADDRS", "IPV6_ADDRS"}
    /\ (tunnel_id % 2^ENC_OPTS_BITS # 0 => rx_env.opts.found)
    /\ rx_env.dev # NULL

\* What C11 says of the receive: the tunnel is restored onto the packet, the
\* sampler is invoked once and after the restore, the packet is freed without
\* delivery or transmit, and the one reference taken is put once, after the
\* sampler.
SampledOnce ==
    /\ rx_call.tun.called /\ rx_call.tun.ret
    /\ rx_skb.dst.family = (IF rx_env.tun.addr_type = "IPV4_ADDRS"
                            THEN "AF_INET" ELSE "AF_INET6")
    /\ rx_skb.dev = rx_env.dev
    /\ Count("mlx5e_tc_sample_skb") = 1
    /\ Dropped
    /\ Count("dev_hold") = 1 /\ Count("dev_put") = 1
    /\ Pos("dev_hold") < Pos("mlx5e_tc_sample_skb")
    /\ Pos("mlx5e_tc_sample_skb") < Pos("dev_put")
    /\ Pos("dev_put") < Pos("dev_kfree_skb_any")

C12_SampleFailureKeepsPacket ==
    (Decoded("SAMPLE") /\ TunnelRestoreFailed)
        => ~InLog("mlx5e_tc_sample_skb") /\ ~Dropped

\* C12 (amended): in the Sample variant a failed tunnel restore skips the
\* sampler and the packet is dropped: freed, neither delivered nor forwarded.
C12_SampleFailureDrops ==
    (Decoded("SAMPLE") /\ TunnelRestoreFailed)
        => ~InLog("mlx5e_tc_sample_skb") /\ Dropped

\* C12 witness: a Sample packet whose base tunnel id is not mapped was freed
\* unsampled.
C12_Witness ==
    /\ Decoded("SAMPLE") /\ TunnelRestoreFailed
    /\ ~rx_env.tun.found
    /\ rx_call.log = <<"mapping_find(reg_c0_obj_pool)", "mapping_find(tunnel_mapping)",
                       "dev_kfree_skb_any">>

\* The packet was handed on: delivered up the stack or transmitted.
HandedOn == InLog("napi_gro_receive") \/ InLog("dev_queue_xmit")

\* C13: every receive either frees the packet or hands it on exactly once, by
\* delivery or by transmit and not both; at most one device reference is taken;
\* a reference taken is put exactly once, after the hand-off if there is one,
\* and none is put that was not taken.
C13_OneHandOffOnePut ==
    rx_call.done =>
        /\ Count("napi_gro_receive") + Count("dev_queue_xmit")
              + Count("dev_kfree_skb_any") = 1
        /\ Count("dev_hold") <= 1
        /\ Count("dev_put") = Count("dev_hold")
        /\ (rx_call.fwd_dev # NULL) = InLog("dev_hold")
        /\ InLog("dev_put") => Pos("dev_hold") < Pos("dev_put")
        /\ (InLog("dev_put") /\ InLog("napi_gro_receive"))
              => Pos("napi_gro_receive") < Pos("dev_put")
        /\ (InLog("dev_put") /\ InLog("dev_queue_xmit"))
              => Pos("dev_queue_xmit") < Pos("dev_put")

\* C13 witness: a chain packet was restored to its tunnel device, delivered,
\* and the reference put after the delivery.
C13_Witness ==
    /\ Decoded("CHAIN") /\ rx_call.fwd_dev = "vxlan0"
    /\ InLog("napi_gro_receive") /\ InLog("dev_put")
    /\ rx_call.log[Len(rx_call.log)] = "dev_put"

\* C15: for an InternalPortMetadata object, a nonzero tunnel id means the
\* resolver is not consulted and the packet is delivered if tunnel restore
\* succeeds and dropped if it fails; a zero tunnel id means the resolver is
\* consulted and tunnel restore is not, and on the resolver's success the
\* packet's device is the pending forward device and the packet is
\* transmitted, not delivered, while on its failure the packet is dropped.
C15_IntPortPrecedence ==
    Decoded("INT_PORT_METADATA") =>
        IF rx_cqe.tunnel_id # 0
        THEN /\ ~InLog("mlx5e_tc_int_port_dev_fwd")
             /\ rx_call.tun.called
             /\ rx_call.tun.tunnel_id = rx_cqe.tunnel_id
             /\ rx_skb = rx_call.tun.skb_out
             /\ rx_call.fwd_dev = rx_call.tun.fwd_dev
             /\ IF rx_call.tun.ret
                THEN InLog("napi_gro_receive") /\ ~InLog("dev_queue_xmit")
                     /\ ~InLog("dev_kfree_skb_any")
                ELSE Dropped
        ELSE /\ Count("mlx5e_tc_int_port_dev_fwd") = 1
             /\ ~rx_call.tun.called
             /\ IF InLog("dev_hold")
                THEN /\ rx_call.fwd_dev = rx_skb.dev
                     /\ InLog("dev_queue_xmit")
                     /\ ~InLog("napi_gro_receive") /\ ~InLog("dev_kfree_skb_any")
                ELSE Dropped /\ rx_call.fwd_dev = NULL

\* C15 witness: an InternalPortMetadata packet with tunnel id 0 was resolved
\* to the internal port's device and transmitted.
C15_Witness ==
    /\ Decoded("INT_PORT_METADATA") /\ rx_cqe.tunnel_id = 0
    /\ rx_skb.dev = "ovs0" /\ rx_call.fwd_dev = "ovs0"
    /\ rx_call.log = <<"mapping_find(reg_c0_obj_pool)", "mlx5e_tc_int_port_dev_fwd",
                       "dev_hold", "dev_queue_xmit", "dev_put">>

\* ------------------------------------------------------------------------
\* Claims on the action-only setup
\* ------------------------------------------------------------------------

\* C14: an action-only Replace whose action set does not hold exactly one
\* action returns EOPNOTSUPP with no handler looked up or invoked, whatever
\* handlers are registered.
C14_ReplaceNeedsOneAction ==
    (/\ act_call.done /\ act_req.has_data /\ act_req.type = "ACT"
     /\ act_req.fl_act.command = "REPLACE"
     /\ Len(act_req.fl_act.action) # 1)
        => act_call.ret = "EOPNOTSUPP" /\ act_call.log = <<>>

\* C14 witness: a Replace of two actions was rejected although both have a
\* handler with callbacks in the namespace in use.
C14_Witness ==
    /\ act_call.done /\ act_req.has_data /\ act_req.type = "ACT"
    /\ act_req.fl_act.command = "REPLACE"
    /\ act_req.fl_act.action = <<"POLICE", "GACT">>
    /\ act_env.esw_mode = "OFFLOADS"
    /\ \A id \in ActionIds : act_env.acts["FDB"][id] = "with_callbacks"
    /\ act_call.ret = "EOPNOTSUPP"

\* ------------------------------------------------------------------------
\* Claims on the deferred reoffload work
\* ------------------------------------------------------------------------

\* The work is neither queued nor running.
WorkIdle == ~reoffload_flows_work.pending /\ ~reoffload_flows_work.running

\* Every port-affinity event was acknowledged.
EventAcknowledged == affinity.events > 0 => affinity.ret = "NOTIFY_OK"

\* C20 (as stated): once disable has returned the work is neither queued nor
\* running, up to and past the tear-down, whatever the interleaving of events,
\* work and disable; every event is acknowledged.
C20_DisableDrains_Original ==
    /\ disable_pc = "returned" => WorkIdle
    /\ EventAcknowledged

\* C20 (amended): the same, provided no port-affinity event arrives after
\* disable has returned.
C20_DisableDrains ==
    /\ (disable_pc = "returned" /\ ~affinity.late) => WorkIdle
    /\ EventAcknowledged

\* C20 witness: the state was torn down after a disable that was called while
\* the work was running and queued again, and an event that came during the
\* cancellation was acknowledged without queuing; the work ran once.
C20_Witness ==
    /\ torn_down /\ ~affinity.late
    /\ affinity.events = MaxEvents /\ ~affinity.queued
    /\ reoffload_flows_work.runs = 1
    /\ WorkIdle

====
